---- MODULE Spec2Model ----
(***************************************************************************)
(* Signal-TUI: the JSON-RPC engine of src/core/SignalClient.ts as a state  *)
(* machine.  One action per handler of the class (start, stop,             *)
(* sendRequest, the stdout read loop with processBuffer and the message    *)
(* handlers, the request timer callback, monitorProcess) and per step of   *)
(* the environment (the clock).  With it, the message store of             *)
(* src/core/MessageStorage.ts as a table of rows, one action per method,   *)
(* and the handlers of the application that write to it: the user's send   *)
(* of ui/components/ChatArea.tsx and the envelope handler of ui/App.tsx.   *)
(***************************************************************************)
EXTENDS Integers, Sequences, FiniteSets, TLC

\* ------------------------------------------------------------------ bounds
MaxCalls == 2     \* sendRequest invocations in one behaviour
MaxProcs == 2     \* subprocesses spawned in one behaviour
MaxTimeout == 1   \* largest configured request timeout, in clock ticks
MaxBuf == 1       \* longest line-buffer residue, in text pieces

\* -------------------------------------------------------------- JSON values
\* JSON null in the id position of a response (types.ts: id: number | null).
Null == 0 - 1

Results == {"resA", "resB"}
RpcErrors == {[code |-> 7, message |-> "errA"]}
Methods == {"send"}
ExitCodes == {0, 1}

\* A JSON number and a JSON string, where the code tests typeof.
Num(n) == [number |-> n]
Str(t) == [string |-> t]

\* Envelopes the daemon sends (types.ts SignalEnvelope).
Envelopes ==
    {[timestamp |-> Num(1), dataMessage |-> [timestamp |-> 1, message |-> "hi"]],
     [timestamp |-> Num(2), receiptMessage |-> [type |-> "READ", timestamps |-> <<1>>]]}

\* Response objects: {"jsonrpc":"2.0","result":r,"id":i} and
\* {"jsonrpc":"2.0","error":{code,message},"id":i}.
ResultResponses == {[jsonrpc |-> "2.0", id |-> i, result |-> r] : i \in 1..MaxCalls, r \in Results}
ErrorResponses == {[jsonrpc |-> "2.0", id |-> i, error |-> e] : i \in 1..MaxCalls, e \in RpcErrors}
NullIdResponses == {[jsonrpc |-> "2.0", id |-> Null, result |-> "resA"]}

\* {"jsonrpc":"2.0","method":"receive","params":{"envelope":e}}
ReceiveNotifications == {[jsonrpc |-> "2.0", method |-> "receive", params |-> [envelope |-> e]] : e \in Envelopes}

Docs == ResultResponses \cup ErrorResponses \cup NullIdResponses \cup ReceiveNotifications

\* ------------------------------------------------------------------- text
\* Text is a sequence of pieces: a newline, a blank, or one of the two halves
\* of the serialisation of a JSON value (two, so that a chunk boundary can
\* fall inside a value).
NL == [ch |-> "nl"]
SP == [ch |-> "sp"]
Piece(d, n) == [ch |-> "json", doc |-> d, part |-> n]

\* JSON.stringify(d)
Stringify(d) == <<Piece(d, 1), Piece(d, 2)>>

RECURSIVE TrimStart(_)
TrimStart(s) == IF s # <<>> /\ Head(s) = SP THEN TrimStart(Tail(s)) ELSE s

RECURSIVE TrimEnd(_)
TrimEnd(s) == IF s # <<>> /\ s[Len(s)] = SP THEN TrimEnd(SubSeq(s, 1, Len(s) - 1)) ELSE s

\* String.prototype.trim
Trim(s) == TrimEnd(TrimStart(s))

\* JSON.parse(line): the value whose serialisation the line is, blanks around
\* it ignored; anything else is a SyntaxError.
JsonParse(line) ==
    LET t == Trim(line) IN
    IF /\ Len(t) = 2
       /\ t[1].ch = "json" /\ t[2].ch = "json"
       /\ t[1].part = 1 /\ t[2].part = 2
       /\ t[1].doc = t[2].doc
    THEN [ok |-> TRUE, json |-> t[1].doc]
    ELSE [ok |-> FALSE]

\* String.prototype.split("\n"): the segments between newlines, in order; the
\* last one is what follows the last newline (possibly empty).
RECURSIVE Split(_)
Split(s) ==
    IF \A i \in 1..Len(s) : s[i] # NL
    THEN <<s>>
    ELSE LET i == CHOOSE j \in 1..Len(s) : s[j] = NL /\ \A k \in 1..(j - 1) : s[k] # NL
         IN <<SubSeq(s, 1, i - 1)>> \o Split(SubSeq(s, i + 1, Len(s)))

\* ------------------------------------------------------------------ state
VARIABLES
    process,          \* this.process: 0 is null, p > 0 the p-th subprocess spawned
    isRunning,        \* this.isRunning
    requestId,        \* this.requestId
    pendingRequests,  \* this.pendingRequests: id -> [call, timeout]
    buffer,           \* this.buffer
    requestTimeout,   \* this.requestTimeout, in clock ticks
    timers,           \* armed setTimeout timers: handle -> [id, left, age]
    spawned,          \* number of subprocesses spawned so far
    reader,           \* per subprocess: state of its startReadingStdout loop
    exitWatch,        \* per subprocess: state of its monitorProcess
    readyWait,        \* per subprocess: its start() is in the 500 ms wait
    calls,            \* one record per sendRequest invocation: its id and the
                      \* resolve/reject calls made on its promise, in order
    stdin,            \* requests written to subprocess stdin, in order
    emitted,          \* events emitted by the last handler, in order
    closes,           \* per subprocess: number of close events emitted for it
    parsed,           \* lines the last handler handed to JSON.parse, in order
    partial,          \* the latest subprocess's output since its last newline
    expected,         \* the lines of its output that its last read completed
    live,             \* since the latest subprocess was spawned, stop() was
                      \* not called and no output of an earlier subprocess
                      \* was read
    stale,            \* the buffer was not empty when the latest subprocess
                      \* was spawned
    thrown,           \* exception thrown by the last API call ("" when none)
    stops             \* stop() calls made in a row just now: 0, 1, or 2 for
                      \* two or more

\* The message store of src/core/MessageStorage.ts.
VARIABLES
    db,               \* this.db: "open" or "closed"
    initialized,      \* this.initialized
    schema,           \* the database file holds the messages table
    table,            \* the rows of the messages table, in insertion order
    storeOps          \* the calls made on the store's interface so far, in order, each
                      \* with its arguments and what it returned, threw and
                      \* emitted

clientVars == <<process, isRunning, requestId, pendingRequests, buffer, requestTimeout,
          timers, spawned, reader, exitWatch, readyWait, calls, stdin, emitted,
          closes, parsed, partial, expected, live, stale, thrown, stops>>

storeVars == <<db, initialized, schema, table, storeOps>>

\* The application around them (ui/App.tsx, ui/components/ChatArea.tsx).
VARIABLES
    sending,          \* the user's send in flight: the position of
                      \* handleSendMessage and what it holds
    app,              \* the state of the App component and the position of
                      \* its asynchronous functions
    lastCall          \* the last call of an application handler or helper:
                      \* its arguments and what it returned, wrote and raised

appVars == <<sending, lastCall, app>>

vars == <<clientVars, storeVars, appVars>>

Procs == 1..MaxProcs

\* ------------------------------------------------------------------- maps
EmptyMap == <<>>
MapSet(m, k, v) == [x \in DOMAIN m \cup {k} |-> IF x = k THEN v ELSE m[x]]
MapDelete(m, k) == [x \in DOMAIN m \ {k} |-> m[x]]

\* clearTimeout(handle): disarms the timer; no effect when it is not armed.
clearTimeout(ts, handle) == MapDelete(ts, handle)

\* -------------------------------------------------------- promise outcomes
Resolved(result) == [kind |-> "resolve", result |-> result]
RejectedRpc(e) == [kind |-> "reject", err |-> "rpc", code |-> e.code, message |-> e.message]
RejectedTimeout(waited) == [kind |-> "reject", err |-> "timeout", waited |-> waited]
RejectedStopped == [kind |-> "reject", err |-> "stopped"]
RejectedExit(code) == [kind |-> "reject", err |-> "exit", code |-> code]
RejectedNotRunning == [kind |-> "reject", err |-> "notRunning"]
RejectedWrite == [kind |-> "reject", err |-> "writeFailed"]

\* A call of the resolve or reject function of the promise of call k.
Settle(cs, k, outcome) == [cs EXCEPT ![k].settles = Append(@, outcome)]

\* ------------------------------------------------- handlers of parsed lines
\* obj.field: undefined when the object has no such member.
Undefined == "undefined"
Get(obj, field) == IF field \in DOMAIN obj THEN obj[field] ELSE Undefined

\* The handlers work on a record st of the fields they read and write:
\* pendingRequests, timers, calls, emitted, parsed.

\* handleResponse, mutated: settles the oldest pending call whatever the id.
handleResponseAnyPending(st, response) ==
    IF response.id = Null \/ DOMAIN st.pendingRequests = {} THEN st
    ELSE LET id == CHOOSE i \in DOMAIN st.pendingRequests :
                       \A j \in DOMAIN st.pendingRequests : i <= j
             pending == st.pendingRequests[id]
         IN [st EXCEPT
               !.timers = clearTimeout(@, pending.timeout),
               !.pendingRequests = MapDelete(@, id),
               !.calls = IF "error" \in DOMAIN response
                         THEN Settle(@, pending.call, RejectedRpc(response.error))
                         ELSE Settle(@, pending.call, Resolved(Get(response, "result")))]

\* handleResponse, mutated: the call's timer is left armed.
handleResponseKeepsTimer(st, response) ==
    IF response.id = Null THEN st
    ELSE IF response.id \notin DOMAIN st.pendingRequests THEN st
    ELSE LET pending == st.pendingRequests[response.id]
         IN [st EXCEPT
               !.pendingRequests = MapDelete(@, response.id),
               !.calls = IF "error" \in DOMAIN response
                         THEN Settle(@, pending.call, RejectedRpc(response.error))
                         ELSE Settle(@, pending.call, Resolved(Get(response, "result")))]

\* handleResponse, mutated: an error response removes the entry and rejects
\* nothing.
handleResponseDropsError(st, response) ==
    IF response.id = Null THEN st
    ELSE IF response.id \notin DOMAIN st.pendingRequests THEN st
    ELSE LET pending == st.pendingRequests[response.id]
         IN [st EXCEPT
               !.timers = clearTimeout(@, pending.timeout),
               !.pendingRequests = MapDelete(@, response.id),
               !.calls = IF "error" \in DOMAIN response
                         THEN @
                         ELSE Settle(@, pending.call, Resolved(Get(response, "result")))]

handleResponse(st, response) ==
    IF response.id = Null THEN st
    ELSE IF response.id \notin DOMAIN st.pendingRequests THEN st
    ELSE LET pending == st.pendingRequests[response.id]
         IN [st EXCEPT
               !.timers = clearTimeout(@, pending.timeout),
               !.pendingRequests = MapDelete(@, response.id),
               !.calls = IF "error" \in DOMAIN response
                         THEN Settle(@, pending.call, RejectedRpc(response.error))
                         ELSE Settle(@, pending.call, Resolved(Get(response, "result")))]

\* handleEnvelope, mutated: typing is tested before receipt.
handleEnvelopeTypingFirst(st, envelope) ==
    LET ev == IF "typingMessage" \in DOMAIN envelope THEN "typing"
              ELSE IF "receiptMessage" \in DOMAIN envelope THEN "receipt"
              ELSE IF "syncMessage" \in DOMAIN envelope THEN "sync"
              ELSE "message"
    IN [st EXCEPT !.emitted = Append(@, [ev |-> ev, envelope |-> envelope])]

handleEnvelope(st, envelope) ==
    LET ev == IF "receiptMessage" \in DOMAIN envelope THEN "receipt"
              ELSE IF "typingMessage" \in DOMAIN envelope THEN "typing"
              ELSE IF "syncMessage" \in DOMAIN envelope THEN "sync"
              ELSE "message"
    IN [st EXCEPT !.emitted = Append(@, [ev |-> ev, envelope |-> envelope])]

\* isJsonRpcResponse, mutated: the jsonrpc member is not looked at.
isJsonRpcResponseIdOnly(json) ==
    /\ "id" \in DOMAIN json
    /\ json.id # Null

isJsonRpcResponse(json) ==
    /\ "jsonrpc" \in DOMAIN json
    /\ json.jsonrpc = "2.0"
    /\ "id" \in DOMAIN json
    /\ json.id # Null

isSignalEnvelope(json) ==
    /\ "timestamp" \in DOMAIN json
    /\ "number" \in DOMAIN json.timestamp

\* handleJsonMessage, mutated: the wrapping object is handed on in place of
\* the envelope it wraps.
handleJsonMessageWrappedWhole(st, json) ==
    IF isJsonRpcResponse(json) THEN handleResponse(st, json)
    ELSE IF isSignalEnvelope(json) THEN handleEnvelope(st, json)
    ELSE IF "envelope" \in DOMAIN json THEN handleEnvelope(st, json)
    ELSE IF /\ "method" \in DOMAIN json
            /\ json.method = "receive"
            /\ "params" \in DOMAIN json
            /\ "envelope" \in DOMAIN json.params
         THEN handleEnvelope(st, json.params.envelope)
    ELSE st

handleJsonMessage(st, json) ==
    IF isJsonRpcResponse(json) THEN handleResponse(st, json)
    ELSE IF isSignalEnvelope(json) THEN handleEnvelope(st, json)
    ELSE IF "envelope" \in DOMAIN json THEN handleEnvelope(st, json.envelope)
    ELSE IF /\ "method" \in DOMAIN json
            /\ json.method = "receive"
            /\ "params" \in DOMAIN json
            /\ "envelope" \in DOMAIN json.params
         THEN handleEnvelope(st, json.params.envelope)
    ELSE st

\* One iteration of the loop of processBuffer.
ProcessLine(st, line) ==
    IF Trim(line) = <<>> THEN st
    ELSE LET p == JsonParse(line)
             st1 == [st EXCEPT !.parsed = Append(@, line)]
         IN IF p.ok THEN handleJsonMessage(st1, p.json) ELSE st1

RECURSIVE ProcessLines(_, _)
ProcessLines(st, lines) ==
    IF lines = <<>> THEN st
    ELSE ProcessLines(ProcessLine(st, Head(lines)), Tail(lines))

\* The lines before the first one that JSON.parse rejects.
RECURSIVE UpToBadLine(_)
UpToBadLine(lines) ==
    IF lines = <<>> THEN <<>>
    ELSE IF Trim(Head(lines)) # <<>> /\ ~JsonParse(Head(lines)).ok THEN <<>>
    ELSE <<Head(lines)>> \o UpToBadLine(Tail(lines))

\* processBuffer, mutated: the try block encloses the loop, so a line that
\* fails to parse ends the processing of the lines read with it.
processBufferStopsAtBadLine(st, text) ==
    LET lines == Split(text)
    IN [st |-> ProcessLines(st, UpToBadLine(SubSeq(lines, 1, Len(lines) - 1))),
        buffer |-> lines[Len(lines)]]

\* processBuffer on the text `text` (the buffer with the chunk appended):
\* the handlers' record after the complete lines, and the new buffer.
processBuffer(st, text) ==
    LET lines == Split(text)
    IN [st |-> ProcessLines(st, SubSeq(lines, 1, Len(lines) - 1)),
        buffer |-> lines[Len(lines)]]

\* ---------------------------------------------------------------- actions
\* The fields the handlers work on, with no event emitted and no line parsed
\* yet by the handler that starts.
HandlerState ==
    [pendingRequests |-> pendingRequests, timers |-> timers, calls |-> calls,
     emitted |-> <<>>, parsed |-> <<>>]

\* RejectAll, mutated: the timers are left armed.
RejectAllKeepsTimers(st, outcome) ==
    LET ps == st.pendingRequests
        rejected == {ps[i].call : i \in DOMAIN ps}
    IN [st EXCEPT
          !.calls = [k \in DOMAIN st.calls |->
                        IF k \in rejected
                        THEN [st.calls[k] EXCEPT !.settles = Append(@, outcome)]
                        ELSE st.calls[k]],
          !.pendingRequests = EmptyMap]

\* for (const [id, pending] of this.pendingRequests) { clearTimeout; reject; delete }
RejectAll(st, outcome) ==
    LET ps == st.pendingRequests
        handles == {ps[i].timeout : i \in DOMAIN ps}
        rejected == {ps[i].call : i \in DOMAIN ps}
    IN [st EXCEPT
          !.timers = [h \in DOMAIN st.timers \ handles |-> st.timers[h]],
          !.calls = [k \in DOMAIN st.calls |->
                        IF k \in rejected
                        THEN [st.calls[k] EXCEPT !.settles = Append(@, outcome)]
                        ELSE st.calls[k]],
          !.pendingRequests = EmptyMap]

\* new SignalClient(...)
InitClient ==
    /\ process = 0
    /\ isRunning = FALSE
    /\ requestId = 0
    /\ pendingRequests = EmptyMap
    /\ buffer = <<>>
    /\ requestTimeout \in 1..MaxTimeout
    /\ timers = EmptyMap
    /\ spawned = 0
    /\ reader = [p \in Procs |-> "idle"]
    /\ exitWatch = [p \in Procs |-> "idle"]
    /\ readyWait = [p \in Procs |-> FALSE]
    /\ calls = <<>>
    /\ stdin = <<>>
    /\ emitted = <<>>
    /\ closes = [p \in Procs |-> 0]
    /\ parsed = <<>>
    /\ partial = <<>>
    /\ expected = <<>>
    /\ live = TRUE
    /\ stale = FALSE
    /\ thrown = ""
    /\ stops = 0

\* The App component rendered for the first time, its effect not yet run:
\* the initial values of useState and useRef.  null and undefined are "";
\* pc is the await at which the asynchronous function `by` stands, timers
\* the pending setTimeout callbacks, asked the client calls made since the
\* last linking flow began, failed whether a catch block ran since then.
Rendered ==
    [currentView |-> "loading", linkUri |-> "", linkStatus |-> "loading",
     errorMessage |-> "", client |-> FALSE, accounts |-> <<>>, isStopping |-> FALSE,
     pc |-> "render", by |-> "", timers |-> 0, asked |-> <<>>, failed |-> FALSE,
     mounted |-> FALSE]

\* The client and the store constructed, no database file from earlier runs.
Init ==
    /\ InitClient
    /\ db = "open"
    /\ initialized = FALSE
    /\ schema = FALSE
    /\ table = <<>>
    /\ storeOps = <<>>
    /\ sending = [stage |-> "idle"]
    /\ lastCall = [handler |-> "none"]
    /\ app = Rendered

\* start(), up to its 500 ms wait.  spawnOk: Bun.spawn returns a subprocess.
start(spawnOk) ==
    /\ emitted' = <<>>
    /\ parsed' = <<>>
    /\ IF isRunning
       THEN /\ thrown' = "SignalClient is already running"
            /\ UNCHANGED <<process, isRunning, spawned, reader, exitWatch,
                           readyWait, partial, live, stale>>
       ELSE IF spawnOk
       THEN /\ spawned < MaxProcs
            /\ spawned' = spawned + 1
            /\ process' = spawned + 1
            /\ isRunning' = TRUE
            /\ reader' = [reader EXCEPT ![spawned + 1] = "reading"]
            /\ exitWatch' = [exitWatch EXCEPT ![spawned + 1] = "waiting"]
            /\ readyWait' = [readyWait EXCEPT ![spawned + 1] = TRUE]
            /\ partial' = <<>>
            /\ live' = TRUE
            /\ stale' = (buffer # <<>>)
            /\ thrown' = ""
       ELSE /\ isRunning' = FALSE
            /\ thrown' = "Failed to start signal-cli"
            /\ UNCHANGED <<process, spawned, reader, exitWatch, readyWait, partial,
                           live, stale>>
    /\ expected' = <<>>
    /\ stops' = 0
    /\ UNCHANGED <<storeVars, appVars, requestId, pendingRequests, buffer, requestTimeout, timers,
                   calls, stdin, closes>>

\* start(), after its 500 ms wait: this.emit("ready").
startReady(p) ==
    /\ readyWait[p]
    /\ readyWait' = [readyWait EXCEPT ![p] = FALSE]
    /\ emitted' = <<[ev |-> "ready"]>>
    /\ parsed' = <<>>
    /\ expected' = <<>>
    /\ thrown' = ""
    /\ stops' = 0
    /\ UNCHANGED <<storeVars, appVars, process, isRunning, requestId, pendingRequests, buffer,
                   requestTimeout, timers, spawned, reader, exitWatch, calls,
                   stdin, closes, partial, live, stale>>

\* stop, mutated: without a subprocess it throws.
stopThrowsWhenStopped ==
    /\ emitted' = <<>>
    /\ parsed' = <<>>
    /\ thrown' = IF process # 0 THEN "" ELSE "SignalClient is not running"
    /\ stops' = IF stops < 2 THEN stops + 1 ELSE 2
    /\ IF process # 0
       THEN LET st == RejectAll(HandlerState, RejectedStopped)
            IN /\ pendingRequests' = st.pendingRequests
               /\ timers' = st.timers
               /\ calls' = st.calls
               /\ process' = 0
               /\ isRunning' = FALSE
               /\ buffer' = <<>>
               /\ live' = FALSE
       ELSE UNCHANGED <<pendingRequests, timers, calls, process, isRunning, buffer,
                        live>>
    /\ expected' = <<>>
    /\ UNCHANGED <<storeVars, appVars, requestId, requestTimeout, spawned, reader, exitWatch,
                   readyWait, stdin, closes, partial, stale>>

stop ==
    /\ emitted' = <<>>
    /\ parsed' = <<>>
    /\ thrown' = ""
    /\ stops' = IF stops < 2 THEN stops + 1 ELSE 2
    /\ IF process # 0
       THEN LET st == RejectAll(HandlerState, RejectedStopped)
            IN /\ pendingRequests' = st.pendingRequests
               /\ timers' = st.timers
               /\ calls' = st.calls
               /\ process' = 0
               /\ isRunning' = FALSE
               /\ buffer' = <<>>
               /\ live' = FALSE
       ELSE UNCHANGED <<pendingRequests, timers, calls, process, isRunning, buffer,
                        live>>
    /\ expected' = <<>>
    /\ UNCHANGED <<storeVars, appVars, requestId, requestTimeout, spawned, reader, exitWatch,
                   readyWait, stdin, closes, partial, stale>>

\* const id = ++this.requestId, with the counter starting again at 1 for
\* each subprocess.
NextIdPerProcess == Len(SelectSeq(stdin, LAMBDA w : w.to = process)) + 1

NextId == requestId + 1

\* The delay sendRequest passes to setTimeout, one tick short.
TimerDelayShort == requestTimeout - 1

TimerDelay == requestTimeout

\* if (!this.process || !this.isRunning), with only the first test
NotRunningNullOnly == process = 0

NotRunning == process = 0 \/ ~isRunning

\* sendRequest(method, params).  writeOk: stdin.write does not throw.
sendRequest(method, writeOk) ==
    /\ Len(calls) < MaxCalls
    /\ emitted' = <<>>
    /\ parsed' = <<>>
    /\ expected' = <<>>
    /\ thrown' = ""
    /\ IF NotRunning
       THEN /\ calls' = Append(calls, [id |-> 0, settles |-> <<RejectedNotRunning>>])
            /\ UNCHANGED <<requestId, pendingRequests, timers, stdin>>
       ELSE LET id == NextId
                k == Len(calls) + 1
                timer == [id |-> id, left |-> TimerDelay, age |-> 0]
                entry == [call |-> k, timeout |-> k]
            IN /\ requestId' = id
               /\ IF writeOk
                  THEN /\ timers' = MapSet(timers, k, timer)
                       /\ pendingRequests' = MapSet(pendingRequests, id, entry)
                       /\ calls' = Append(calls, [id |-> id, settles |-> <<>>])
                       /\ stdin' = Append(stdin, [to |-> process, id |-> id, method |-> method])
                  ELSE /\ timers' = clearTimeout(MapSet(timers, k, timer), k)
                       /\ pendingRequests' = MapDelete(MapSet(pendingRequests, id, entry), id)
                       /\ calls' = Append(calls, [id |-> id, settles |-> <<RejectedWrite>>])
                       /\ stdin' = stdin
    /\ stops' = 0
    /\ UNCHANGED <<storeVars, appVars, process, isRunning, buffer, requestTimeout, spawned, reader,
                   exitWatch, readyWait, closes, partial, live, stale>>

\* The callback sendRequest gives to setTimeout, run when timer k is due.
timeoutFires(k) ==
    /\ k \in DOMAIN timers
    /\ timers[k].left = 0
    /\ pendingRequests' = MapDelete(pendingRequests, timers[k].id)
    /\ calls' = Settle(calls, k, RejectedTimeout(timers[k].age))
    /\ timers' = MapDelete(timers, k)
    /\ emitted' = <<>>
    /\ parsed' = <<>>
    /\ expected' = <<>>
    /\ thrown' = ""
    /\ stops' = 0
    /\ UNCHANGED <<storeVars, appVars, process, isRunning, requestId, buffer, requestTimeout, spawned,
                   reader, exitWatch, readyWait, stdin, closes, partial, live, stale>>

\* One clock tick passes for every armed timer.
Tick ==
    /\ \E k \in DOMAIN timers : timers[k].left > 0
    /\ timers' = [k \in DOMAIN timers |->
                    [timers[k] EXCEPT !.left = IF @ > 0 THEN @ - 1 ELSE 0,
                                      !.age = @ + 1]]
    /\ UNCHANGED <<storeVars, appVars, process, isRunning, requestId, pendingRequests, buffer,
                   requestTimeout, spawned, reader, exitWatch, readyWait, calls,
                   stdin, emitted, closes, parsed, partial, expected, live, stale,
                   thrown, stops>>

\* startReadingStdout of subprocess p: reader.read() returns a chunk.
stdoutChunk(p, chunk) ==
    /\ reader[p] = "reading"
    /\ LET r == processBuffer(HandlerState, buffer \o chunk)
           out == Split(partial \o chunk)
       IN /\ Len(r.buffer) <= MaxBuf
          /\ Len(out[Len(out)]) <= MaxBuf
          /\ buffer' = r.buffer
          /\ pendingRequests' = r.st.pendingRequests
          /\ timers' = r.st.timers
          /\ calls' = r.st.calls
          /\ emitted' = r.st.emitted
          /\ parsed' = r.st.parsed
          /\ IF p = spawned
             THEN /\ partial' = out[Len(out)]
                  /\ expected' = SubSeq(out, 1, Len(out) - 1)
                  /\ live' = live
             ELSE /\ partial' = partial
                  /\ expected' = <<>>
                  /\ live' = FALSE
    /\ reader' = [reader EXCEPT ![p] = IF isRunning THEN "reading" ELSE "ended"]
    /\ thrown' = ""
    /\ stops' = 0
    /\ UNCHANGED <<storeVars, appVars, process, isRunning, requestId, requestTimeout, spawned,
                   exitWatch, readyWait, stdin, closes, stale>>

\* startReadingStdout of subprocess p: reader.read() returns done.
stdoutDone(p) ==
    /\ reader[p] = "reading"
    /\ reader' = [reader EXCEPT ![p] = "ended"]
    /\ emitted' = <<>>
    /\ parsed' = <<>>
    /\ expected' = <<>>
    /\ thrown' = ""
    /\ stops' = 0
    /\ UNCHANGED <<storeVars, appVars, process, isRunning, requestId, pendingRequests, buffer,
                   requestTimeout, timers, spawned, exitWatch, readyWait, calls,
                   stdin, closes, partial, live, stale>>

\* monitorProcess, mutated: isRunning is left as it is.
monitorProcessKeepsRunning(p, code) ==
    /\ exitWatch[p] = "waiting"
    /\ exitWatch' = [exitWatch EXCEPT ![p] = "done"]
    /\ LET st == RejectAll(HandlerState, RejectedExit(code))
       IN /\ pendingRequests' = st.pendingRequests
          /\ timers' = st.timers
          /\ calls' = st.calls
    /\ emitted' = <<[ev |-> "close", code |-> code]>>
    /\ closes' = [closes EXCEPT ![p] = @ + 1]
    /\ parsed' = <<>>
    /\ expected' = <<>>
    /\ thrown' = ""
    /\ stops' = 0
    /\ UNCHANGED <<storeVars, appVars, process, isRunning, requestId, buffer, requestTimeout, spawned,
                   reader, readyWait, stdin, partial, live, stale>>

\* monitorProcess of subprocess p: its exited promise resolves with code.
monitorProcess(p, code) ==
    /\ exitWatch[p] = "waiting"
    /\ exitWatch' = [exitWatch EXCEPT ![p] = "done"]
    /\ isRunning' = FALSE
    /\ LET st == RejectAll(HandlerState, RejectedExit(code))
       IN /\ pendingRequests' = st.pendingRequests
          /\ timers' = st.timers
          /\ calls' = st.calls
    /\ emitted' = <<[ev |-> "close", code |-> code]>>
    /\ closes' = [closes EXCEPT ![p] = @ + 1]
    /\ parsed' = <<>>
    /\ expected' = <<>>
    /\ thrown' = ""
    /\ stops' = 0
    /\ UNCHANGED <<storeVars, appVars, process, requestId, buffer, requestTimeout, spawned, reader,
                   readyWait, stdin, partial, live, stale>>

\* startReadingStdout of subprocess p: reader.read() throws.
stdoutError(p) ==
    /\ reader[p] = "reading"
    /\ reader' = [reader EXCEPT ![p] = "ended"]
    /\ emitted' = IF isRunning THEN <<[ev |-> "error"]>> ELSE <<>>
    /\ parsed' = <<>>
    /\ expected' = <<>>
    /\ thrown' = ""
    /\ stops' = 0
    /\ UNCHANGED <<storeVars, appVars, process, isRunning, requestId, pendingRequests, buffer,
                   requestTimeout, timers, spawned, exitWatch, readyWait, calls,
                   stdin, closes, partial, live, stale>>

\* ----------------------------------------------------------- environment
\* What the subprocess's stdout delivers in one read.
Lines == {Stringify(d) \o <<NL>> : d \in Docs}
SplitLines == UNION {{<<Piece(d, 1)>>, <<Piece(d, 2), NL>>} : d \in ReceiveNotifications}

\* Every text of one or two pieces over newline, blank and the halves of the
\* notifications.
FramingPieces == {NL, SP} \cup {Piece(d, n) : d \in ReceiveNotifications, n \in 1..2}
ShortChunks == {<<a>> : a \in FramingPieces} \cup {<<a, b>> : a, b \in FramingPieces}

\* Two whole lines in one read.
DoubleLines ==
    {Stringify(a) \o <<NL>> \o Stringify(b) \o <<NL>> : a, b \in ReceiveNotifications}

FramingChunks == ShortChunks \cup DoubleLines

\* The payload an envelope carries under each of its four payload members.
PayloadKinds == {"receiptMessage", "typingMessage", "syncMessage", "dataMessage"}
Payload(kind) ==
    IF kind = "receiptMessage" THEN [type |-> "READ", timestamps |-> <<1>>]
    ELSE IF kind = "typingMessage" THEN [action |-> "STARTED", timestamp |-> 1]
    ELSE IF kind = "syncMessage"
         THEN [sentMessage |-> [destinationNumber |-> "+1", timestamp |-> 1, message |-> "yo"]]
    ELSE [timestamp |-> 1, message |-> "hi"]

\* An envelope with a numeric timestamp and any of the four payload members.
EnvelopeWith(kinds) ==
    [f \in {"timestamp"} \cup kinds |-> IF f = "timestamp" THEN Num(1) ELSE Payload(f)]
AllEnvelopes == {EnvelopeWith(kinds) : kinds \in SUBSET PayloadKinds}

\* The three shapes in which a notification arrives.
Bare(e) == e
Wrapped(e) == [envelope |-> e]
Receive(e) == [jsonrpc |-> "2.0", method |-> "receive", params |-> [envelope |-> e]]
NotificationDocs == UNION {{Bare(e), Wrapped(e), Receive(e)} : e \in AllEnvelopes}

\* Other objects a line can hold: a response without the jsonrpc member, a
\* receive notification with an id, one with a null id, a bare envelope with
\* an id, an envelope whose timestamp is a string.
OddDocs ==
    {[id |-> 1, result |-> "resA"],
     [jsonrpc |-> "2.0", method |-> "receive", id |-> 1,
      params |-> [envelope |-> EnvelopeWith({"dataMessage"})]],
     [jsonrpc |-> "2.0", method |-> "receive", id |-> Null,
      params |-> [envelope |-> EnvelopeWith({"dataMessage"})]],
     [id |-> 2, timestamp |-> Num(1), dataMessage |-> Payload("dataMessage")],
     [timestamp |-> Str("1"), dataMessage |-> Payload("dataMessage")]}

\* One whole line per read, of any of these objects.
ClassifyLines ==
    {Stringify(d) \o <<NL>> :
        d \in NotificationDocs \cup OddDocs \cup ResultResponses \cup ErrorResponses
              \cup NullIdResponses}

\* Lines that JSON.parse rejects: a value cut short, and its two halves in
\* the wrong order.
BadLines ==
    UNION {{<<Piece(d, 1)>>, <<Piece(d, 2), Piece(d, 1)>>} :
              d \in {[jsonrpc |-> "2.0", id |-> 1, result |-> "resA"],
                     Receive(EnvelopeWith({"dataMessage"}))}}

\* A read that holds a bad line alone, or a bad line and a well-formed line
\* after it.
GoodAfterBad == ResultResponses \cup ErrorResponses \cup {Receive(EnvelopeWith({"dataMessage"}))}
BadLineChunks ==
    {b \o <<NL>> : b \in BadLines}
    \cup {b \o <<NL>> \o Stringify(d) \o <<NL>> : b \in BadLines, d \in GoodAfterBad}

\* ================================================ the message store
\* src/core/MessageStorage.ts over bun:sqlite.
MaxOps == 3       \* store operations in one behaviour

\* getMessages(conversationId, limit = 50, beforeTimestamp?)
DefaultLimit == 50

\* Number.prototype.toString, on a natural number: its decimal digits.  A
\* string of digits is the sequence of its digits.
RECURSIVE toString(_)
toString(n) == IF n < 10 THEN <<n>> ELSE toString(n \div 10) \o <<n % 10>>

\* Conversation keys: a group id and a phone number.  A handle is the
\* sequence of its characters.
Keys == {<<"g", "1">>, <<"+", "1", "5">>}

\* SQL NULL in a text column.
SqlNull == "NULL"

\* An optional number argument: left out, or given.
NoCursor == [given |-> FALSE]
Cursor(n) == [given |-> TRUE, value |-> n]

\* if (beforeTimestamp): undefined and 0 are falsy.
CursorTruthy(c) == c.given /\ c.value # 0

\* ChatMessage values (types.ts); senderName and status are optional.
StoreMessages ==
    {[id |-> toString(1), sender |-> "+1", senderName |-> "Al", content |-> "a",
      timestamp |-> 1, isOutgoing |-> FALSE],
     [id |-> toString(1), sender |-> "Me", content |-> "b", timestamp |-> 1,
      isOutgoing |-> TRUE, status |-> "read"],
     [id |-> toString(2), sender |-> "Me", content |-> "c", timestamp |-> 2,
      isOutgoing |-> TRUE, status |-> "sent"],
     [id |-> toString(3), sender |-> "+1", senderName |-> "", content |-> "d",
      timestamp |-> 2, isOutgoing |-> FALSE, status |-> "delivered"],
     [id |-> toString(3 * DefaultLimit), sender |-> "+1", content |-> "e",
      timestamp |-> 3 * DefaultLimit, isOutgoing |-> FALSE]}

\* The parameters addMessage binds: $sender_name: msg.senderName || null,
\* $is_outgoing: msg.isOutgoing ? 1 : 0, $status: msg.status || "sent".
Row(msg, conversationId) ==
    [id |-> msg.id,
     conversation_id |-> conversationId,
     sender |-> msg.sender,
     sender_name |-> IF "senderName" \in DOMAIN msg /\ msg.senderName # ""
                     THEN msg.senderName ELSE SqlNull,
     content |-> msg.content,
     timestamp |-> msg.timestamp,
     is_outgoing |-> IF msg.isOutgoing THEN 1 ELSE 0,
     status |-> IF "status" \in DOMAIN msg /\ msg.status # ""
                THEN msg.status ELSE "sent"]

\* INSERT into a table without a key.
InsertAppends(tbl, row) == tbl \o <<row>>

\* INSERT OR REPLACE on a table whose id column is the PRIMARY KEY: the row
\* that holds the new row's id is deleted, and the new row is inserted.
InsertOrReplace(tbl, row) == SelectSeq(tbl, LAMBDA r : r.id # row.id) \o <<row>>

\* The object getMessages builds from a row: senderName: row.sender_name ||
\* undefined, isOutgoing: Boolean(row.is_outgoing).
ToMessage(row) ==
    IF row.sender_name # SqlNull /\ row.sender_name # ""
    THEN [id |-> row.id, sender |-> row.sender, senderName |-> row.sender_name,
          content |-> row.content, timestamp |-> row.timestamp,
          isOutgoing |-> row.is_outgoing # 0, status |-> row.status]
    ELSE [id |-> row.id, sender |-> row.sender,
          content |-> row.content, timestamp |-> row.timestamp,
          isOutgoing |-> row.is_outgoing # 0, status |-> row.status]

\* ORDER BY timestamp DESC LIMIT n over the rows at positions S: every order
\* SQL allows (rows of equal timestamp come in any order), as sequences of
\* positions.
RECURSIVE OrderByTimestampDesc(_, _, _)
OrderByTimestampDesc(tbl, S, n) ==
    IF S = {} \/ n = 0
    THEN {<<>>}
    ELSE UNION {{<<i>> \o t : t \in OrderByTimestampDesc(tbl, S \ {i}, n - 1)} :
                i \in {j \in S : \A l \in S : tbl[l].timestamp <= tbl[j].timestamp}}

\* The array left as the query returned it.
ReverseNot(s) == s

\* Array.prototype.reverse
Reverse(s) == [i \in 1..Len(s) |-> s[Len(s) + 1 - i]]

\* The rows the query of getMessages selects.
Selected(tbl, conversationId, beforeTimestamp) ==
    {i \in 1..Len(tbl) :
        /\ tbl[i].conversation_id = conversationId
        /\ CursorTruthy(beforeTimestamp) => tbl[i].timestamp < beforeTimestamp.value}

\* What getMessages can return on table tbl.
GetMessages(tbl, conversationId, limit, beforeTimestamp) ==
    {Reverse([i \in 1..Len(o) |-> ToMessage(tbl[o[i]])]) :
        o \in OrderByTimestampDesc(tbl, Selected(tbl, conversationId, beforeTimestamp), limit)}

\* A database file left by earlier runs: DefaultLimit messages of one
\* conversation, all newer than the small timestamps above.
Backlog ==
    [i \in 1..DefaultLimit |->
        Row([id |-> toString(DefaultLimit + i), sender |-> "+1", content |-> "old",
             timestamp |-> DefaultLimit + i, isOutgoing |-> FALSE], <<"g", "1">>)]

\* The client and the store constructed, over the database file the store
\* finds.
InitStored ==
    /\ InitClient
    /\ db = "open"
    /\ initialized = FALSE
    /\ \/ schema = FALSE /\ table = <<>>
       \/ schema = TRUE /\ table \in {<<>>, Backlog}
    /\ storeOps = <<>>
    /\ sending = [stage |-> "idle"]
    /\ lastCall = [handler |-> "none"]
    /\ app = Rendered

\* A statement can be prepared and run.
Usable == db = "open" /\ schema

\* init()
init ==
    /\ Len(storeOps) < MaxOps
    /\ IF initialized
       THEN /\ storeOps' = Append(storeOps, [op |-> "init", thrown |-> FALSE])
            /\ UNCHANGED <<initialized, schema>>
       ELSE IF db = "open"
       THEN /\ schema' = TRUE
            /\ initialized' = TRUE
            /\ storeOps' = Append(storeOps, [op |-> "init", thrown |-> FALSE])
       ELSE /\ storeOps' = Append(storeOps, [op |-> "init", thrown |-> TRUE])
            /\ UNCHANGED <<initialized, schema>>
    /\ UNCHANGED <<clientVars, appVars, db, table>>

\* addMessage emitting new-message before it runs the INSERT.
addMessageEmitsFirst(msg, conversationId) ==
    /\ Len(storeOps) < MaxOps
    /\ IF Usable
       THEN /\ table' = InsertOrReplace(table, Row(msg, conversationId))
            /\ \E saw \in GetMessages(table, conversationId, DefaultLimit, NoCursor) :
                 storeOps' = Append(storeOps,
                     [op |-> "addMessage", msg |-> msg, conversationId |-> conversationId,
                      thrown |-> FALSE,
                      emitted |-> <<[event |-> "new-message", msg |-> msg,
                                     conversationId |-> conversationId]>>,
                      saw |-> saw])
       ELSE /\ storeOps' = Append(storeOps,
                     [op |-> "addMessage", msg |-> msg, conversationId |-> conversationId,
                      thrown |-> TRUE, emitted |-> <<>>, saw |-> <<>>])
            /\ UNCHANGED table
    /\ UNCHANGED <<clientVars, appVars, db, initialized, schema>>

\* addMessage(msg, conversationId) with one listener on new-message that
\* reads getMessages(conversationId).
addMessage(msg, conversationId) ==
    /\ Len(storeOps) < MaxOps
    /\ IF Usable
       THEN /\ table' = InsertOrReplace(table, Row(msg, conversationId))
            /\ \E saw \in GetMessages(table', conversationId, DefaultLimit, NoCursor) :
                 storeOps' = Append(storeOps,
                     [op |-> "addMessage", msg |-> msg, conversationId |-> conversationId,
                      thrown |-> FALSE,
                      emitted |-> <<[event |-> "new-message", msg |-> msg,
                                     conversationId |-> conversationId]>>,
                      saw |-> saw])
       ELSE /\ storeOps' = Append(storeOps,
                     [op |-> "addMessage", msg |-> msg, conversationId |-> conversationId,
                      thrown |-> TRUE, emitted |-> <<>>, saw |-> <<>>])
            /\ UNCHANGED table
    /\ UNCHANGED <<clientVars, appVars, db, initialized, schema>>

\* getMessages(conversationId, limit, beforeTimestamp)
getMessages(conversationId, limit, beforeTimestamp) ==
    /\ Len(storeOps) < MaxOps
    /\ IF Usable
       THEN \E result \in GetMessages(table, conversationId, limit, beforeTimestamp) :
                 storeOps' = Append(storeOps,
                     [op |-> "getMessages", conversationId |-> conversationId,
                      limit |-> limit, beforeTimestamp |-> beforeTimestamp,
                      thrown |-> FALSE, result |-> result])
       ELSE storeOps' = Append(storeOps,
                     [op |-> "getMessages", conversationId |-> conversationId,
                      limit |-> limit, beforeTimestamp |-> beforeTimestamp,
                      thrown |-> TRUE, result |-> <<>>])
    /\ UNCHANGED <<clientVars, appVars, db, initialized, schema, table>>

\* UPDATE messages SET status = $status WHERE timestamp = $timestamp
UpdateStatusAnyDirection(tbl, timestamp, status) ==
    [i \in 1..Len(tbl) |->
        IF tbl[i].timestamp = timestamp
        THEN [tbl[i] EXCEPT !.status = status]
        ELSE tbl[i]]

\* UPDATE messages SET status = $status WHERE timestamp = $timestamp AND
\* is_outgoing = 1
UpdateStatus(tbl, timestamp, status) ==
    [i \in 1..Len(tbl) |->
        IF tbl[i].timestamp = timestamp /\ tbl[i].is_outgoing = 1
        THEN [tbl[i] EXCEPT !.status = status]
        ELSE tbl[i]]

\* updateMessageStatus(timestamp, status)
updateMessageStatus(timestamp, status) ==
    /\ Len(storeOps) < MaxOps
    /\ IF Usable
       THEN /\ table' = UpdateStatus(table, timestamp, status)
            /\ storeOps' = Append(storeOps,
                     [op |-> "updateMessageStatus", timestamp |-> timestamp,
                      status |-> status, thrown |-> FALSE, emitted |-> <<>>])
       ELSE /\ storeOps' = Append(storeOps,
                     [op |-> "updateMessageStatus", timestamp |-> timestamp,
                      status |-> status, thrown |-> TRUE, emitted |-> <<>>])
            /\ UNCHANGED table
    /\ UNCHANGED <<clientVars, appVars, db, initialized, schema>>

\* The transaction of replaceMessage: the row with oldId is removed and the
\* new row is written, insert-or-overwrite keyed by id.
ReplaceRow(tbl, oldId, row) == InsertOrReplace(SelectSeq(tbl, LAMBDA r : r.id # oldId), row)

\* replaceMessage(oldId, newMessage, conversationId): in one transaction,
\* removes the row with oldId and inserts newMessage, then emits
\* message-replaced(oldId, newMessage).
replaceMessageKeepsOld(oldId, newMessage, conversationId) ==
    /\ Len(storeOps) < MaxOps
    /\ IF Usable
       THEN /\ table' = InsertOrReplace(table, Row(newMessage, conversationId))
            /\ storeOps' = Append(storeOps,
                     [op |-> "replaceMessage", oldId |-> oldId, msg |-> newMessage,
                      conversationId |-> conversationId, thrown |-> FALSE,
                      emitted |-> <<[event |-> "message-replaced", oldId |-> oldId,
                                     msg |-> newMessage]>>])
       ELSE /\ storeOps' = Append(storeOps,
                     [op |-> "replaceMessage", oldId |-> oldId, msg |-> newMessage,
                      conversationId |-> conversationId, thrown |-> TRUE,
                      emitted |-> <<>>])
            /\ UNCHANGED table
    /\ UNCHANGED <<clientVars, appVars, db, initialized, schema>>

replaceMessage(oldId, newMessage, conversationId) ==
    /\ Len(storeOps) < MaxOps
    /\ IF Usable
       THEN /\ table' = ReplaceRow(table, oldId, Row(newMessage, conversationId))
            /\ storeOps' = Append(storeOps,
                     [op |-> "replaceMessage", oldId |-> oldId, msg |-> newMessage,
                      conversationId |-> conversationId, thrown |-> FALSE,
                      emitted |-> <<[event |-> "message-replaced", oldId |-> oldId,
                                     msg |-> newMessage]>>])
       ELSE /\ storeOps' = Append(storeOps,
                     [op |-> "replaceMessage", oldId |-> oldId, msg |-> newMessage,
                      conversationId |-> conversationId, thrown |-> TRUE,
                      emitted |-> <<>>])
            /\ UNCHANGED table
    /\ UNCHANGED <<clientVars, appVars, db, initialized, schema>>

\* The rows of conversation k with the maximum timestamp of k.
Newest(tbl, k) ==
    {i \in 1..Len(tbl) :
        /\ tbl[i].conversation_id = k
        /\ \A l \in 1..Len(tbl) :
              tbl[l].conversation_id = k => tbl[l].timestamp <= tbl[i].timestamp}

\* The mapping read from the row added last to each conversation.
MetadataOfLastAdded(tbl) ==
    LET K == {tbl[i].conversation_id : i \in 1..Len(tbl)}
        last(k) == CHOOSE i \in 1..Len(tbl) :
                      /\ tbl[i].conversation_id = k
                      /\ \A l \in 1..Len(tbl) : tbl[l].conversation_id = k => l <= i
    IN {[k \in K |-> [timestamp |-> tbl[last(k)].timestamp,
                      content |-> tbl[last(k)].content]]}

\* What getAllConversationMetadata can return on table tbl: one entry per
\* conversation key of the table, read from a row of the maximum timestamp
\* of the conversation (the rule among such rows is left open).
MetadataOf(tbl) ==
    LET K == {tbl[i].conversation_id : i \in 1..Len(tbl)}
        newest == UNION {Newest(tbl, k) : k \in K}
        picks == {c \in [K -> newest] : \A k \in K : c[k] \in Newest(tbl, k)}
    IN {[k \in K |-> [timestamp |-> tbl[c[k]].timestamp,
                      content |-> tbl[c[k]].content]] : c \in picks}

\* getAllConversationMetadata()
getAllConversationMetadata ==
    /\ Len(storeOps) < MaxOps
    /\ IF Usable
       THEN \E result \in MetadataOf(table) :
                 storeOps' = Append(storeOps,
                     [op |-> "getAllConversationMetadata", thrown |-> FALSE,
                      result |-> result])
       ELSE storeOps' = Append(storeOps,
                     [op |-> "getAllConversationMetadata", thrown |-> TRUE])
    /\ UNCHANGED <<clientVars, appVars, db, initialized, schema, table>>

\* close()
close ==
    /\ Len(storeOps) < MaxOps
    /\ db' = "closed"
    /\ storeOps' = Append(storeOps, [op |-> "close", thrown |-> FALSE])
    /\ UNCHANGED <<clientVars, appVars, initialized, schema, table>>

\* ================================================== the application
\* ui/App.tsx and ui/components/ChatArea.tsx: the user's send and the
\* envelopes the engine emits, written to the store.
MaxTime == 2      \* latest clock reading, in milliseconds

Texts == {"hi"}

\* An optional value: undefined, or given.
Absent == [given |-> FALSE]
Given(v) == [given |-> TRUE, value |-> v]

\* What the promise of SignalClient.sendMessage resolves to when the daemon
\* answers the send request with `result`, handing the timestamp on.
sendMessageReturnsTimestamp(result) == Given(result.timestamp)

\* What it resolves to: sendMessage awaits sendRequest("send", params) and
\* returns nothing.
sendMessage(result) == Absent

\* null, beside undefined.
NullValue == [given |-> FALSE, null |-> TRUE]

\* Truthiness of an optional string: undefined, null and "" are falsy.
Truthy(o) == o.given /\ o.value # <<>>

\* String.prototype.trim on a sequence of characters.
WhiteSpace == {" "}
RECURSIVE TrimLeft(_)
TrimLeft(str) == IF str # <<>> /\ Head(str) \in WhiteSpace THEN TrimLeft(Tail(str)) ELSE str
RECURSIVE TrimRight(_)
TrimRight(str) ==
    IF str # <<>> /\ str[Len(str)] \in WhiteSpace
    THEN TrimRight(SubSeq(str, 1, Len(str) - 1))
    ELSE str

\* normalizeNumber(phone): "" for a falsy argument; otherwise the string is
\* trimmed, every non-digit is removed (/\D/g), and a + is put in front when
\* the trimmed string starts with one.
DigitChars == {"0", "1", "2", "3", "4", "5", "6", "7", "8", "9"}
normalizeNumberUntrimmed(phone) ==
    IF ~Truthy(phone)
    THEN <<>>
    ELSE LET str == phone.value
             hasPlus == str # <<>> /\ str[1] = "+"
             digits == SelectSeq(str, LAMBDA c : c \in DigitChars)
         IN IF hasPlus THEN <<"+">> \o digits ELSE digits

normalizeNumber(phone) ==
    IF ~Truthy(phone)
    THEN <<>>
    ELSE LET str == TrimRight(TrimLeft(phone.value))
             hasPlus == str # <<>> /\ str[1] = "+"
             digits == SelectSeq(str, LAMBDA c : c \in DigitChars)
         IN IF hasPlus THEN <<"+">> \o digits ELSE digits

\* The arguments normalizeNumber is applied to: undefined, null, and the
\* strings of up to MaxPhoneLen characters of PhoneChars.
MaxPhoneLen == 3
PhoneChars == {"+", "1", "5", "-", " "}
Phones ==
    {Absent, NullValue} \cup
    {Given(str) : str \in UNION {[1..n -> PhoneChars] : n \in 0..MaxPhoneLen}}

\* One application of normalizeNumber; the call before it is kept when it
\* had the same argument.
callNormalizeNumber(phone) ==
    /\ lastCall' = [handler |-> "normalizeNumber", phone |-> phone,
                    result |-> normalizeNumber(phone), raised |-> FALSE,
                    before |-> IF /\ lastCall.handler = "normalizeNumber"
                                  /\ lastCall.phone = phone
                               THEN <<lastCall.result>> ELSE <<>>]
    /\ UNCHANGED <<clientVars, storeVars, sending, app>>

\* obj.field of an optional string member.
Handle(obj, field) == IF field \in DOMAIN obj THEN Given(obj[field]) ELSE Absent

\* The right operand, whatever the left.
OrElseSecond(a, b) == b

\* a || b on optional strings
OrElse(a, b) == IF Truthy(a) THEN a ELSE b

\* The synced echo of a send: the envelope the daemon delivers for a message
\* sent from this account, group info present when the conversation is a
\* group.
IsGroup(k) == k[1] = "g"
SyncEcho(k, text, timestamp) ==
    IF IsGroup(k)
    THEN [timestamp |-> Num(timestamp),
          syncMessage |-> [sentMessage |-> [message |-> text, timestamp |-> timestamp,
                                            groupInfo |-> [groupId |-> k]]]]
    ELSE [timestamp |-> Num(timestamp),
          syncMessage |-> [sentMessage |-> [message |-> text, timestamp |-> timestamp,
                                            destinationNumber |-> k]]]

\* An incoming message, from a number written with punctuation.
Incoming ==
    {[timestamp |-> Num(1), sourceNumber |-> <<"+", "1", "-", "5">>, sourceName |-> "Al",
      dataMessage |-> [timestamp |-> 1, message |-> "yo"]]}

\* A message sent from another device of the account, to another contact.
SyncedElsewhere ==
    {[timestamp |-> Num(t),
      syncMessage |-> [sentMessage |-> [message |-> "yo2", timestamp |-> t,
                                        destinationNumber |-> <<"+", "2">>]]] :
        t \in 1..MaxTime}

\* Contacts as listContacts returns them: one with a number and a unique
\* id, one known by its unique id only, one with neither handle.
Contacts ==
    {[name |-> "Al", number |-> <<"+", "1", "-", "5">>, uuid |-> <<"a", "1", "-", "b", "2">>],
     [name |-> "Bo", uuid |-> <<"c", "3", "-", "d", "4">>],
     [name |-> "Cy"]}

\* The handles of a contact, under the member names of an envelope.
Handles(c, number, uuid) ==
    (IF "number" \in DOMAIN c THEN number :> c.number ELSE <<>>) @@
    (IF "uuid" \in DOMAIN c THEN uuid :> c.uuid ELSE <<>>)

\* The envelope of a direct message received from contact c.
IncomingFrom(c, t) ==
    Handles(c, "sourceNumber", "sourceUuid") @@
    [timestamp |-> Num(t), sourceName |-> c.name,
     dataMessage |-> [timestamp |-> t, message |-> "yo"]]

\* The envelope of a direct message sent to contact c from another device.
SyncedTo(c, t) ==
    [timestamp |-> Num(t),
     syncMessage |-> [sentMessage |->
         Handles(c, "destinationNumber", "destinationUuid") @@
         [message |-> "yo2", timestamp |-> t]]]

\* The same two, in a group: group info beside the handles.
GroupIncomingFrom(c, k, t) ==
    Handles(c, "sourceNumber", "sourceUuid") @@
    [timestamp |-> Num(t), sourceName |-> c.name,
     dataMessage |-> [timestamp |-> t, message |-> "yo", groupInfo |-> [groupId |-> k]]]

GroupSyncedTo(c, k, t) ==
    [timestamp |-> Num(t),
     syncMessage |-> [sentMessage |->
         Handles(c, "destinationNumber", "destinationUuid") @@
         [message |-> "yo2", timestamp |-> t, groupInfo |-> [groupId |-> k]]]]

\* The envelopes of the message and sync events: direct and group, with
\* one and with the other timestamp; and two that carry no text.
ThreadEnvelopes ==
    UNION {{IncomingFrom(c, t), SyncedTo(c, t),
            GroupIncomingFrom(c, <<"g", "1">>, t), GroupSyncedTo(c, <<"g", "1">>, t)} :
               c \in Contacts, t \in 1..MaxTime}
    \cup {[timestamp |-> Num(1), sourceNumber |-> <<"+", "1", "-", "5">>,
           typingMessage |-> [action |-> "STARTED"]],
          [timestamp |-> Num(1), syncMessage |-> [readMessages |-> <<>>]]}

\* The conversation id the Sidebar gives a contact:
\* normalizeNumber(c.number) || c.uuid || ""
ContactId(c) ==
    OrElse(OrElse(Given(normalizeNumber(Handle(c, "number"))), Handle(c, "uuid")),
           Given(<<>>)).value

\* handleEnvelope of App.tsx, up to the write: the conversation id and the
\* message it would store.
Translate(envelope) ==
    IF /\ "dataMessage" \in DOMAIN envelope
       /\ "message" \in DOMAIN envelope.dataMessage
       /\ envelope.dataMessage.message # ""
    THEN [conversationId |->
              IF "groupInfo" \in DOMAIN envelope.dataMessage
              THEN envelope.dataMessage.groupInfo.groupId
              ELSE normalizeNumber(OrElse(Handle(envelope, "sourceNumber"),
                                          Handle(envelope, "sourceUuid"))),
          hasMessage |-> TRUE,
          newMessage |->
              IF "sourceName" \in DOMAIN envelope
              THEN [id |-> toString(envelope.timestamp.number),
                    sender |-> OrElse(OrElse(Handle(envelope, "sourceNumber"),
                                             Handle(envelope, "sourceUuid")),
                                      Given(<<"Unknown">>)).value,
                    senderName |-> envelope.sourceName,
                    content |-> envelope.dataMessage.message,
                    timestamp |-> envelope.timestamp.number,
                    isOutgoing |-> FALSE]
              ELSE [id |-> toString(envelope.timestamp.number),
                    sender |-> OrElse(OrElse(Handle(envelope, "sourceNumber"),
                                             Handle(envelope, "sourceUuid")),
                                      Given(<<"Unknown">>)).value,
                    content |-> envelope.dataMessage.message,
                    timestamp |-> envelope.timestamp.number,
                    isOutgoing |-> FALSE]]
    ELSE IF /\ "syncMessage" \in DOMAIN envelope
            /\ "sentMessage" \in DOMAIN envelope.syncMessage
            /\ "message" \in DOMAIN envelope.syncMessage.sentMessage
            /\ envelope.syncMessage.sentMessage.message # ""
    THEN [conversationId |->
              IF "groupInfo" \in DOMAIN envelope.syncMessage.sentMessage
              THEN envelope.syncMessage.sentMessage.groupInfo.groupId
              ELSE normalizeNumber(
                       OrElse(Handle(envelope.syncMessage.sentMessage, "destinationNumber"),
                              Handle(envelope.syncMessage.sentMessage, "destinationUuid"))),
          hasMessage |-> TRUE,
          newMessage |->
              [id |-> toString(envelope.timestamp.number),
               sender |-> "Me",
               content |-> envelope.syncMessage.sentMessage.message,
               timestamp |-> envelope.timestamp.number,
               isOutgoing |-> TRUE]]
    ELSE [conversationId |-> <<>>, hasMessage |-> FALSE]

\* The table after storage.<write> called from a handler: the write when a
\* statement can be run, nothing when the call throws.
Written(tbl) == IF Usable THEN tbl ELSE table

\* handleSendMessage(text) of ChatArea, up to its await: the optimistic
\* message is stored and client.sendMessage is called.  now1 and now2 are
\* the two readings of Date.now(); assigned is the timestamp the daemon will
\* give the message.  The storage prop is defined once init() has resolved.
handleSendMessage(text, k, now1, now2, assigned) ==
    /\ sending.stage = "idle"
    /\ LET optimisticMessage ==
               [id |-> toString(now1), sender |-> "Me", content |-> text,
                timestamp |-> now2, isOutgoing |-> TRUE, status |-> "sent"]
       IN /\ table' = IF initialized
                      THEN Written(InsertOrReplace(table, Row(optimisticMessage, k)))
                      ELSE table
          /\ sending' = [stage |-> IF initialized /\ ~Usable THEN "threw" ELSE "awaiting",
                         optimisticMessage |-> optimisticMessage,
                         conversationId |-> k,
                         storage |-> initialized,
                         assigned |-> assigned,
                         echoed |-> FALSE]
    /\ lastCall' = [handler |-> "handleSendMessage", raised |-> initialized /\ ~Usable]
    /\ UNCHANGED <<clientVars, db, initialized, schema, storeOps, app>>

\* handleSendMessage after the await, the send call resolved with the
\* daemon's result: timestamp.toString() throws when timestamp is undefined,
\* and the catch block marks the optimistic message failed.
sendResolved ==
    /\ sending.stage = "awaiting"
    /\ LET timestamp == sendMessage([timestamp |-> sending.assigned])
           optimisticMessage == sending.optimisticMessage
       IN table' =
            IF ~sending.storage
            THEN table
            ELSE IF timestamp.given
            THEN Written(ReplaceRow(table, optimisticMessage.id,
                     Row([optimisticMessage EXCEPT !.id = toString(timestamp.value),
                                                  !.timestamp = timestamp.value],
                         sending.conversationId)))
            ELSE Written(UpdateStatus(table, optimisticMessage.timestamp, "failed"))
    /\ sending' = [sending EXCEPT !.stage = "resolved"]
    /\ lastCall' = [handler |-> "handleSendMessage", raised |-> sending.storage /\ ~Usable]
    /\ UNCHANGED <<clientVars, db, initialized, schema, storeOps, app>>

\* handleSendMessage after the await, the send call rejected.
sendRejected ==
    /\ sending.stage = "awaiting"
    /\ table' = IF sending.storage
                THEN Written(UpdateStatus(table, sending.optimisticMessage.timestamp, "failed"))
                ELSE table
    /\ sending' = [sending EXCEPT !.stage = "rejected"]
    /\ lastCall' = [handler |-> "handleSendMessage", raised |-> sending.storage /\ ~Usable]
    /\ UNCHANGED <<clientVars, db, initialized, schema, storeOps, app>>

\* handleEnvelope of App.tsx on a message or sync event.
storeEnvelope(envelope) ==
    /\ LET t == Translate(envelope)
       IN /\ table' = IF t.conversationId # <<>> /\ t.hasMessage
                      THEN Written(InsertOrReplace(table, Row(t.newMessage, t.conversationId)))
                      ELSE table
          /\ lastCall' = [handler |-> "handleEnvelope", envelope |-> envelope,
                          translated |-> t,
                          saved |-> t.conversationId # <<>> /\ t.hasMessage,
                          raised |-> t.conversationId # <<>> /\ t.hasMessage /\ ~Usable]
    /\ UNCHANGED <<clientVars, db, initialized, schema, storeOps, sending, app>>

\* Receipt envelopes: every type, with lists of no, one and two timestamps
\* (in both orders, and one timestamp twice); and an envelope of the receipt
\* event that carries no receipt message.
ReceiptTypes == {"DELIVERY", "READ", "VIEWED"}
Receipts ==
    {[timestamp |-> Num(2), receiptMessage |-> [type |-> type, timestamps |-> timestamps]] :
        type \in ReceiptTypes, timestamps \in {<<>>, <<1>>, <<1, 2>>, <<2, 1>>, <<1, 1>>}}
    \cup {[timestamp |-> Num(2), sourceNumber |-> <<"+", "1", "-", "5">>]}

\* type === "READ" ? "read" : "delivered"
ReceiptStatusOfRead(type) == IF type = "READ" THEN "read" ELSE "delivered"

\* type === "READ" || type === "VIEWED" ? "read" : "delivered"
ReceiptStatus(type) == IF type \in {"READ", "VIEWED"} THEN "read" ELSE "delivered"

\* for (const timestamp of timestamps) updateMessageStatus(timestamp, status)
RECURSIVE UpdateEach(_, _, _)
UpdateEach(tbl, timestamps, status) ==
    IF timestamps = <<>> THEN tbl
    ELSE UpdateEach(UpdateStatus(tbl, Head(timestamps), status), Tail(timestamps), status)

\* The receipt listener of App.tsx.  Without a table the first
\* updateMessageStatus throws and the loop is left.
receiptListener(envelope) ==
    /\ IF "receiptMessage" \notin DOMAIN envelope
       THEN /\ table' = table
            /\ lastCall' = [handler |-> "receipt", envelope |-> envelope,
                            calls |-> <<>>, raised |-> FALSE]
       ELSE LET timestamps == envelope.receiptMessage.timestamps
                status == ReceiptStatus(envelope.receiptMessage.type)
                all == [i \in 1..Len(timestamps) |->
                           [timestamp |-> timestamps[i], status |-> status]]
            IN IF Usable \/ timestamps = <<>>
               THEN /\ table' = UpdateEach(table, timestamps, status)
                    /\ lastCall' = [handler |-> "receipt", envelope |-> envelope,
                                    calls |-> all, raised |-> FALSE]
               ELSE /\ table' = table
                    /\ lastCall' = [handler |-> "receipt", envelope |-> envelope,
                                    calls |-> SubSeq(all, 1, 1), raised |-> TRUE]
    /\ UNCHANGED <<clientVars, db, initialized, schema, storeOps, sending, app>>

\* The synced echo of the user's send arrives.
echoArrives ==
    /\ sending.stage \in {"awaiting", "resolved", "rejected"}
    /\ ~sending.echoed
    /\ LET t == Translate(SyncEcho(sending.conversationId, sending.optimisticMessage.content,
                                   sending.assigned))
       IN table' = IF t.conversationId # <<>> /\ t.hasMessage
                   THEN Written(InsertOrReplace(table, Row(t.newMessage, t.conversationId)))
                   ELSE table
    /\ sending' = [sending EXCEPT !.echoed = TRUE]
    /\ lastCall' = [handler |-> "handleEnvelope", raised |-> ~Usable]
    /\ UNCHANGED <<clientVars, db, initialized, schema, storeOps, app>>

\* ------------------------------------------------- the conversation list
\* Conversations of the Sidebar: a display name, and a last-message time
\* that is absent, 0 or positive.
MaxConvs == 3
Conversations ==
    {[type |-> "contact", displayName |-> name] : name \in {"Al", "Bo"}} \cup
    {[type |-> "contact", displayName |-> name, lastMessageTime |-> t] :
        name \in {"Al", "Bo"}, t \in 0..2}

\* String.prototype.localeCompare on the display names in use: negative,
\* zero or positive by the place of the names in the collation.
localeCompare(x, y) ==
    LET collation == <<"Al", "Bo">>
        place(n) == CHOOSE i \in 1..Len(collation) : collation[i] = n
    IN place(x) - place(y)

\* The comparator with the oldest message first.
byRecencyOldestFirst(a, b) ==
    LET aTime == IF "lastMessageTime" \in DOMAIN a THEN a.lastMessageTime ELSE 0
        bTime == IF "lastMessageTime" \in DOMAIN b THEN b.lastMessageTime ELSE 0
    IN IF aTime > 0 /\ bTime > 0 THEN aTime - bTime
       ELSE IF aTime > 0 THEN -1
       ELSE IF bTime > 0 THEN 1
       ELSE localeCompare(a.displayName, b.displayName)

\* The comparator handed to Array.prototype.sort.
byRecency(a, b) ==
    LET aTime == IF "lastMessageTime" \in DOMAIN a THEN a.lastMessageTime ELSE 0
        bTime == IF "lastMessageTime" \in DOMAIN b THEN b.lastMessageTime ELSE 0
    IN IF aTime > 0 /\ bTime > 0 THEN bTime - aTime
       ELSE IF aTime > 0 THEN -1
       ELSE IF bTime > 0 THEN 1
       ELSE localeCompare(a.displayName, b.displayName)

\* convs.sort(comparator): the sort is stable, an element is put before the
\* first one it compares less than.
RECURSIVE sortByRecency(_)
sortByRecency(convs) ==
    LET RECURSIVE Insert(_, _)
        Insert(x, sorted) ==
            IF sorted = <<>> THEN <<x>>
            ELSE IF byRecency(x, Head(sorted)) < 0 THEN <<x>> \o sorted
            ELSE <<Head(sorted)>> \o Insert(x, Tail(sorted))
    IN IF convs = <<>> THEN <<>>
       ELSE Insert(convs[Len(convs)], sortByRecency(SubSeq(convs, 1, Len(convs) - 1)))

\* One application of sortByRecency.
callSortByRecency(convs) ==
    /\ lastCall' = [handler |-> "sortByRecency", convs |-> convs,
                    result |-> sortByRecency(convs), raised |-> FALSE]
    /\ UNCHANGED <<clientVars, storeVars, sending, app>>

\* ------------------------------------------------- the App component
\* The effect of App, up to its first await: without a signal-cli path the
\* error is shown and nothing else is set up; with one the client is made,
\* the listeners are registered and initialize() calls start().
mount(signalCliPath) ==
    /\ app.pc = "render"
    /\ app' = IF signalCliPath = ""
              THEN [app EXCEPT !.currentView = "onboarding", !.linkStatus = "error",
                               !.errorMessage = "signal-cli not found",
                               !.pc = "idle", !.mounted = TRUE]
              ELSE [app EXCEPT !.client = TRUE, !.isStopping = FALSE,
                               !.pc = "start", !.by = "initialize",
                               !.asked = <<[method |-> "start", param |-> ""]>>,
                               !.mounted = TRUE]
    /\ UNCHANGED <<clientVars, storeVars, sending, lastCall>>

\* initialize() leaving the linking to the user when no account exists.
initializeWithoutLinking(existingAccounts) ==
    /\ app.by = "initialize"
    /\ app.pc \in {"start", "listAccounts"}
    /\ app' = IF app.pc = "start"
              THEN [app EXCEPT !.pc = "listAccounts",
                               !.asked = Append(@, [method |-> "listAccounts", param |-> ""])]
              ELSE IF Len(existingAccounts) > 0
              THEN [app EXCEPT !.accounts = existingAccounts, !.currentView = "chat",
                               !.pc = "idle", !.by = ""]
              ELSE [app EXCEPT !.accounts = existingAccounts, !.currentView = "onboarding",
                               !.pc = "idle", !.by = ""]
    /\ UNCHANGED <<clientVars, storeVars, sending, lastCall>>

\* initialize() resumes after start() or after its listAccounts() resolved,
\* the latter with existingAccounts.
initialize(existingAccounts) ==
    /\ app.by = "initialize"
    /\ app.pc \in {"start", "listAccounts"}
    /\ app' = IF app.pc = "start"
              THEN [app EXCEPT !.pc = "listAccounts",
                               !.asked = Append(@, [method |-> "listAccounts", param |-> ""])]
              ELSE IF Len(existingAccounts) > 0
              THEN [app EXCEPT !.accounts = existingAccounts, !.currentView = "chat",
                               !.pc = "idle", !.by = ""]
              ELSE [app EXCEPT !.accounts = existingAccounts, !.currentView = "onboarding",
                               !.pc = "startLink", !.failed = FALSE,
                               !.asked = <<[method |-> "startLink", param |-> ""]>>]
    /\ UNCHANGED <<clientVars, storeVars, sending, lastCall>>

\* startLinkingProcess(), called on Ctrl+L in the chat view (or from the
\* Sidebar), up to its first await.
startLinkingProcess ==
    /\ app.mounted
    /\ app.currentView = "chat"
    /\ app.client
    /\ app' = [app EXCEPT !.currentView = "onboarding", !.linkStatus = "loading",
                          !.linkUri = "", !.errorMessage = "",
                          !.pc = "startLink", !.by = "startLinkingProcess",
                          !.failed = FALSE,
                          !.asked = <<[method |-> "startLink", param |-> ""]>>]
    /\ UNCHANGED <<clientVars, storeVars, sending, lastCall>>

\* The linking steps with the view set to chat as soon as finishLink()
\* resolves.
linkResumesChatAtOnce(uri, updatedAccounts) ==
    /\ app.pc \in {"startLink", "finishLink", "refetch"}
    /\ app' = IF app.pc = "startLink"
              THEN [app EXCEPT !.linkUri = uri, !.linkStatus = "waiting",
                               !.pc = "finishLink",
                               !.asked = Append(@, [method |-> "finishLink", param |-> uri])]
              ELSE IF app.pc = "finishLink"
              THEN [app EXCEPT !.linkStatus = "success", !.pc = "refetch",
                               !.currentView = "chat",
                               !.asked = Append(@, [method |-> "listAccounts", param |-> ""])]
              ELSE [app EXCEPT !.accounts = updatedAccounts, !.timers = @ + 1,
                               !.pc = "idle", !.by = ""]
    /\ UNCHANGED <<clientVars, storeVars, sending, lastCall>>

\* The linking steps, the same in initialize() and startLinkingProcess(),
\* resume: getLinkUri() resolved with uri, finishLink() resolved, or the
\* second listAccounts() resolved with updatedAccounts.
linkResumes(uri, updatedAccounts) ==
    /\ app.pc \in {"startLink", "finishLink", "refetch"}
    /\ app' = IF app.pc = "startLink"
              THEN [app EXCEPT !.linkUri = uri, !.linkStatus = "waiting",
                               !.pc = "finishLink",
                               !.asked = Append(@, [method |-> "finishLink", param |-> uri])]
              ELSE IF app.pc = "finishLink"
              THEN [app EXCEPT !.linkStatus = "success", !.pc = "refetch",
                               !.asked = Append(@, [method |-> "listAccounts", param |-> ""])]
              ELSE [app EXCEPT !.accounts = updatedAccounts, !.timers = @ + 1,
                               !.pc = "idle", !.by = ""]
    /\ UNCHANGED <<clientVars, storeVars, sending, lastCall>>

\* The catch block without its test of the stopping flag.
rejectedAlwaysReports(reason) ==
    /\ app.pc \in {"start", "listAccounts", "startLink", "finishLink", "refetch"}
    /\ app' = [app EXCEPT !.linkStatus = "error", !.errorMessage = reason,
                          !.pc = "idle", !.by = "", !.failed = TRUE]
    /\ UNCHANGED <<clientVars, storeVars, sending, lastCall>>

\* The awaited call rejects: the catch block of either function.
rejected(reason) ==
    /\ app.pc \in {"start", "listAccounts", "startLink", "finishLink", "refetch"}
    /\ app' = IF app.isStopping
              THEN [app EXCEPT !.pc = "idle", !.by = "", !.failed = TRUE]
              ELSE [app EXCEPT !.linkStatus = "error", !.errorMessage = reason,
                               !.pc = "idle", !.by = "", !.failed = TRUE]
    /\ UNCHANGED <<clientVars, storeVars, sending, lastCall>>

\* setTimeout(() => setCurrentView("chat"), 1500) fires.
chatTimer ==
    /\ app.timers > 0
    /\ app' = [app EXCEPT !.currentView = "chat", !.timers = @ - 1]
    /\ UNCHANGED <<clientVars, storeVars, sending, lastCall>>

\* The listener of the client's error event.
errorListener(message) ==
    /\ app.client
    /\ app' = IF app.isStopping
              THEN app
              ELSE [app EXCEPT !.linkStatus = "error", !.errorMessage = message]
    /\ UNCHANGED <<clientVars, storeVars, sending, lastCall>>

\* The listener of the client's close event.  It reads linkStatus as the
\* effect captured it, "loading".
closeListener(code) ==
    /\ app.client
    /\ app' = IF app.isStopping
              THEN app
              ELSE IF code # 0 /\ "loading" # "success"
              THEN [app EXCEPT !.linkStatus = "error",
                               !.errorMessage = "signal-cli exited with code"]
              ELSE app
    /\ UNCHANGED <<clientVars, storeVars, sending, lastCall>>

\* The cleanup of the effect: the stopping flag is set and stop() is called.
unmount ==
    /\ app.mounted
    /\ app.client
    /\ app' = [app EXCEPT !.isStopping = TRUE, !.mounted = FALSE]
    /\ UNCHANGED <<clientVars, storeVars, sending, lastCall>>

\* ------------------------------------------------------- specifications
Next ==
    \/ \E ok \in BOOLEAN : start(ok)
    \/ \E p \in Procs : startReady(p)
    \/ stop
    \/ \E m \in Methods, ok \in BOOLEAN : sendRequest(m, ok)
    \/ \E k \in 1..MaxCalls : timeoutFires(k)
    \/ Tick
    \/ \E p \in Procs, c \in Lines \cup FramingChunks : stdoutChunk(p, c)
    \/ \E p \in Procs : stdoutDone(p)
    \/ \E p \in Procs : stdoutError(p)
    \/ \E p \in Procs, code \in ExitCodes : monitorProcess(p, code)

\* The whole engine.
Spec == Init /\ [][Next]_vars

\* The steps that touch calls (requests, responses, timers, stop and exit),
\* with the reads of stdout drawn from `chunks`.
NextEngine(chunks) ==
    \/ \E ok \in BOOLEAN : start(ok)
    \/ stop
    \/ \E m \in Methods, ok \in BOOLEAN : sendRequest(m, ok)
    \/ \E k \in 1..MaxCalls : timeoutFires(k)
    \/ Tick
    \/ \E p \in Procs, c \in chunks : stdoutChunk(p, c)
    \/ \E p \in Procs, code \in ExitCodes : monitorProcess(p, code)

\* The daemon answers in whole lines.
SpecEngine == Init /\ [][NextEngine(Lines)]_vars

\* The life of the subprocess alone, with the ready event of every start():
\* starting, stopping, sending, the 500 ms wait running out, and the exit.
SpecReady ==
    Init /\ [][\/ \E ok \in BOOLEAN : start(ok)
               \/ stop
               \/ \E m \in Methods, ok \in BOOLEAN : sendRequest(m, ok)
               \/ \E p \in Procs : startReady(p)
               \/ \E p \in Procs, code \in ExitCodes : monitorProcess(p, code)]_vars

\* The same, with time passing and every due timer firing in the end.
SpecEngineFair ==
    /\ SpecEngine
    /\ WF_vars(Tick)
    /\ \A k \in 1..MaxCalls : WF_vars(timeoutFires(k))

\* The daemon's output arrives with a line cut in two.
SpecResidue == Init /\ [][NextEngine(SplitLines)]_vars

\* The steps that touch the line buffer, on any cutting of the output.
NextFraming ==
    \/ start(TRUE)
    \/ stop
    \/ \E p \in Procs, c \in FramingChunks : stdoutChunk(p, c)
    \/ \E p \in Procs : stdoutDone(p)
    \/ \E p \in Procs, code \in ExitCodes : monitorProcess(p, code)

SpecFraming == Init /\ [][NextFraming]_vars

\* The steps that classify lines: calls are issued and the daemon's lines,
\* well-formed or not, are read.
NextLines ==
    \/ start(TRUE)
    \/ \E m \in Methods : sendRequest(m, TRUE)
    \/ \E p \in Procs, c \in ClassifyLines \cup BadLineChunks : stdoutChunk(p, c)

SpecLines == Init /\ [][NextLines]_vars

\* The store on its own, over any database file it may find.
NextStore ==
    \/ init
    \/ \E msg \in StoreMessages, k \in Keys : addMessage(msg, k)
    \/ \E k \in Keys, limit \in {1, DefaultLimit} : getMessages(k, limit, NoCursor)
    \/ \E ts \in 1..2, status \in {"failed", "read"} : updateMessageStatus(ts, status)
    \/ close

SpecStore == InitStored /\ [][NextStore]_vars

\* Paged reads: writes, and reads with and without a cursor.
NextRead ==
    \/ \E msg \in StoreMessages, k \in Keys : addMessage(msg, k)
    \/ \E k \in Keys, limit \in {1, DefaultLimit},
          beforeTimestamp \in {NoCursor, Cursor(0), Cursor(2)} :
              getMessages(k, limit, beforeTimestamp)

SpecRead == InitStored /\ [][NextRead]_vars

\* Optimistic writes and their replacement.
NextReplace ==
    \/ \E msg \in StoreMessages, k \in Keys : addMessage(msg, k)
    \/ \E oldId \in {toString(1), toString(2)}, msg \in StoreMessages, k \in Keys :
          replaceMessage(oldId, msg, k)
    \/ \E k \in Keys : getMessages(k, DefaultLimit, NoCursor)

SpecReplace == InitStored /\ [][NextReplace]_vars

\* The conversation list's recency data: writes in any order, and the
\* aggregate read.
NextMetadata ==
    \/ \E msg \in StoreMessages, k \in Keys : addMessage(msg, k)
    \/ getAllConversationMetadata

SpecMetadata == InitStored /\ [][NextMetadata]_vars

\* The conversation key of a handle: normalizeNumber applied again and
\* again, to every argument.
NextNormalize == \E phone \in Phones : callNormalizeNumber(phone)

SpecNormalize == Init /\ [][NextNormalize]_vars

\* The message and sync events of the application: envelopes of every
\* contact, direct and in a group, stored as they arrive.
NextThreads ==
    \/ init
    \/ \E envelope \in ThreadEnvelopes : storeEnvelope(envelope)

SpecThreads == InitStored /\ [][NextThreads]_vars

\* Receipts: messages stored from their envelopes, and the receipts that
\* arrive for them.
NextReceipts ==
    \/ init
    \/ \E envelope \in Incoming \cup SyncedElsewhere : storeEnvelope(envelope)
    \/ \E envelope \in Receipts : receiptListener(envelope)

SpecReceipts == InitStored /\ [][NextReceipts]_vars

\* The Sidebar's ordering, applied to every list of up to MaxConvs
\* conversations.
SpecSort ==
    Init /\ [][\E convs \in UNION {[1..n -> Conversations] : n \in 0..MaxConvs} :
                   callSortByRecency(convs)]_vars

\* The App component: startup, linking, failures and shutdown, the client's
\* calls resolving or rejecting as the daemon and the client decide.
NextApp ==
    \/ \E signalCliPath \in {"", "/usr/bin/signal-cli"} : mount(signalCliPath)
    \/ \E existingAccounts \in {<<>>, <<"+15">>} : initialize(existingAccounts)
    \/ startLinkingProcess
    \/ \E uri \in {"sgnl://a", "sgnl://b"}, updatedAccounts \in {<<>>, <<"+15">>} :
          linkResumes(uri, updatedAccounts)
    \/ \E reason \in {"Request timeout", "Client stopped"} : rejected(reason)
    \/ chatTimer
    \/ errorListener("Stream error")
    \/ \E code \in {0, 1} : closeListener(code)
    \/ unmount

SpecApp == Init /\ [][NextApp]_vars

\* Every awaited call is answered and a timer that was set fires.
SpecAppFair ==
    /\ SpecApp
    /\ WF_vars(\E existingAccounts \in {<<>>, <<"+15">>} : initialize(existingAccounts))
    /\ WF_vars(\E uri \in {"sgnl://a", "sgnl://b"}, updatedAccounts \in {<<>>, <<"+15">>} :
                   linkResumes(uri, updatedAccounts))
    /\ WF_vars(chatTimer)

\* The user's send: the store is initialised, holds what earlier events
\* wrote, and one message is sent while its response and its echo arrive in
\* either order.
NextSend ==
    \/ init
    \/ \E e \in Incoming \cup SyncedElsewhere : storeEnvelope(e)
    \/ \E text \in Texts, k \in Keys, now1 \in 1..MaxTime :
          \E now2 \in now1..MaxTime : \E assigned \in now2..MaxTime :
              handleSendMessage(text, k, now1, now2, assigned)
    \/ sendResolved
    \/ sendRejected
    \/ echoArrives

SpecSend == InitStored /\ [][NextSend]_vars

\* ================================================================ claims
\* The outcomes call k got in this step, in order.
NewOutcomes(k) ==
    SubSeq(calls'[k].settles, Len(calls[k].settles) + 1, Len(calls'[k].settles))

\* The responses among the lines handed to the parser in this step, in order.
RECURSIVE ResponsesIn(_)
ResponsesIn(lines) ==
    IF lines = <<>> THEN <<>>
    ELSE LET r == JsonParse(Head(lines))
         IN IF r.ok /\ isJsonRpcResponse(r.json)
            THEN <<r.json>> \o ResponsesIn(Tail(lines))
            ELSE ResponsesIn(Tail(lines))

\* What a response asks its caller to get: its result, or its error.
AskedOutcome(response) ==
    IF "error" \in DOMAIN response
    THEN [kind |-> "reject", err |-> "rpc", code |-> response.error.code,
          message |-> response.error.message]
    ELSE [kind |-> "resolve", result |-> Get(response, "result")]

FromResponse(o) == o.kind = "resolve" \/ o.err = "rpc"

\* C1: a call is resolved, or rejected with an RPC error, only in a step that
\* handles a response carrying the call's own id, and then with exactly that
\* response's result, or its error code and message; and the first response
\* that carries the id of a pending call settles that call so, whatever other
\* calls are pending and whatever lines came before.
C1_ResponseSettlesOwnCall ==
    [][/\ \A k \in DOMAIN calls :
            \A n \in 1..Len(NewOutcomes(k)) :
                FromResponse(NewOutcomes(k)[n]) =>
                    \E j \in 1..Len(ResponsesIn(parsed')) :
                        /\ ResponsesIn(parsed')[j].id = calls[k].id
                        /\ NewOutcomes(k)[n] = AskedOutcome(ResponsesIn(parsed')[j])
       /\ \A j \in 1..Len(ResponsesIn(parsed')) :
            LET r == ResponsesIn(parsed')[j]
            IN (/\ r.id \in DOMAIN pendingRequests
                /\ \A i \in 1..(j - 1) : ResponsesIn(parsed')[i].id # r.id)
               => NewOutcomes(pendingRequests[r.id].call) = <<AskedOutcome(r)>>
      ]_vars

\* Two calls are pending; the response to the second arrives first and
\* resolves it, then an error response to the first rejects the first.
C1_Witness ==
    /\ Len(calls) = 2
    /\ calls[1].id = 1 /\ calls[2].id = 2
    /\ calls[2].settles = <<[kind |-> "resolve", result |-> "resB"]>>
    /\ calls[1].settles = <<[kind |-> "reject", err |-> "rpc", code |-> 7, message |-> "errA"]>>
    /\ ResponsesIn(parsed) = <<[jsonrpc |-> "2.0", id |-> 1, error |-> [code |-> 7, message |-> "errA"]]>>

\* The ids under which call k has an entry in the pending map.
EntriesOf(k) == {id \in DOMAIN pendingRequests : pendingRequests[id].call = k}

Settled(k) == calls[k].settles # <<>>

\* C2: in every reachable state no call has been resolved or rejected more
\* than once; a call that is not settled yet has exactly one pending entry,
\* under its own id; and a settled call has none.
C2_SettledOnceAndUntracked ==
    \A k \in DOMAIN calls :
        /\ Len(calls[k].settles) <= 1
        /\ ~Settled(k) => EntriesOf(k) = {calls[k].id}
        /\ Settled(k) => EntriesOf(k) = {}

\* A call pending at stop() was rejected by it; after a new start() a second
\* call was rejected by the exit of the first subprocess, the second
\* subprocess still alive.
C2_Witness ==
    /\ Len(calls) = 2
    /\ calls[1].settles = <<RejectedStopped>>
    /\ calls[2].settles = <<RejectedExit(1)>>
    /\ calls[2].id = 2
    /\ process = 2
    /\ exitWatch[2] = "waiting"

\* C3: a call is rejected with the timeout error only when at least the
\* configured timeout has passed since it was issued; a call so rejected has
\* no other outcome, before or after, and no entry in the pending map.
C3_TimeoutNotEarly ==
    \A k \in DOMAIN calls :
        \A n \in 1..Len(calls[k].settles) :
            LET o == calls[k].settles[n]
            IN (o.kind = "reject" /\ o.err = "timeout") =>
                  /\ o.waited >= requestTimeout
                  /\ Len(calls[k].settles) = 1
                  /\ calls[k].id \notin DOMAIN pendingRequests

\* A call timed out, and a response carrying its id was handled afterwards.
C3_Witness ==
    /\ Len(calls) >= 1
    /\ calls[1].settles = <<RejectedTimeout(requestTimeout)>>
    /\ \E j \in 1..Len(ResponsesIn(parsed)) : ResponsesIn(parsed)[j].id = calls[1].id

\* C4: a stop() on an engine that holds a subprocess rejects every pending
\* call with the stopped error and leaves the pending map empty, the buffer
\* empty, the engine not running and the timers of those calls disarmed; a
\* call rejected by stop() never gets another outcome.
C4_StopStep ==
    (process # 0 /\ process' = 0) =>
        /\ \A id \in DOMAIN pendingRequests :
              /\ NewOutcomes(pendingRequests[id].call) = <<RejectedStopped>>
              /\ pendingRequests[id].timeout \notin DOMAIN timers'
        /\ pendingRequests' = EmptyMap
        /\ buffer' = <<>>
        /\ ~isRunning'

C4_StopRejectsAll ==
    /\ [][C4_StopStep]_vars
    /\ [](\A k \in DOMAIN calls :
            (\E n \in 1..Len(calls[k].settles) : calls[k].settles[n] = RejectedStopped)
                => calls[k].settles = <<RejectedStopped>> /\ k \notin DOMAIN timers)

\* stop() was called on the first subprocess with a call pending and half a
\* line in the buffer.
C4_Witness ==
    /\ spawned = 1
    /\ process = 0
    /\ stops = 1
    /\ partial # <<>>
    /\ buffer = <<>>
    /\ Len(calls) >= 1
    /\ calls[1].settles = <<RejectedStopped>>

\* C5: the step in which the exit of subprocess p is handled rejects every
\* pending call with the exit error carrying the exit code, leaves the engine
\* not running, and emits close with that code and nothing else; close is
\* emitted once for a subprocess whose exit was handled and never otherwise.
C5_ExitStep ==
    \A p \in Procs :
        (exitWatch[p] = "waiting" /\ exitWatch'[p] = "done") =>
            /\ Len(emitted') = 1
            /\ emitted'[1].ev = "close"
            /\ emitted'[1].code \in ExitCodes
            /\ \A id \in DOMAIN pendingRequests :
                  NewOutcomes(pendingRequests[id].call) = <<RejectedExit(emitted'[1].code)>>
            /\ pendingRequests' = EmptyMap
            /\ ~isRunning'
            /\ closes'[p] = closes[p] + 1

C5_ExitRejectsAndCloses ==
    /\ [][C5_ExitStep]_vars
    /\ [](\A p \in Procs : closes[p] = IF exitWatch[p] = "done" THEN 1 ELSE 0)

\* The subprocess exited with code 1 while a call was pending.
C5_Witness ==
    /\ Len(calls) >= 1
    /\ calls[1].settles = <<RejectedExit(1)>>
    /\ closes[1] = 1
    /\ emitted = <<[ev |-> "close", code |-> 1]>>
    /\ ~isRunning

\* C6: if time passes and due timers fire, every call that is issued is
\* settled in the end, whatever the daemon sends or fails to send, whether
\* or not it exits and whether or not stop() is called.
C6_EveryCallSettles ==
    \A k \in 1..MaxCalls :
        [](k \in DOMAIN calls => <>(k \in DOMAIN calls /\ calls[k].settles # <<>>))

\* The daemon never answered and the call was rejected by its timer.
C6_Witness ==
    /\ Len(calls) >= 1
    /\ calls[1].settles = <<RejectedTimeout(requestTimeout)>>
    /\ process = 1
    /\ isRunning
    /\ parsed = <<>>

\* The calls that took a correlation id, in the order they were issued.
Issued == SelectSeq(calls, LAMBDA c : c.id # 0)

\* C7: the correlation ids of the calls, in the order the calls were issued,
\* are strictly increasing, so that no id is used twice, also when stop() and
\* a new start() fall between two calls.
C7_IdsIncrease ==
    \A i, j \in 1..Len(Issued) : i < j => Issued[i].id < Issued[j].id

\* One request was written to the first subprocess and, after stop() and a
\* new start(), one to the second.
C7_Witness ==
    /\ Len(stdin) = 2
    /\ stdin[1].to = 1 /\ stdin[2].to = 2
    /\ stdin[1].id = 1 /\ stdin[2].id = 2
    /\ calls[1].settles = <<RejectedStopped>>

\* C8: a sendRequest on an engine that has no subprocess or is not running
\* rejects the call with the not-running error and leaves the id counter,
\* the pending map, the timers and what was written to stdin as they were.
C8_NotRunningStep ==
    (Len(calls') = Len(calls) + 1 /\ (process = 0 \/ ~isRunning)) =>
        /\ calls' = Append(calls, [id |-> 0, settles |-> <<RejectedNotRunning>>])
        /\ UNCHANGED <<requestId, pendingRequests, timers, stdin, process,
                       isRunning, buffer>>

C8_NotRunningRejects == [][C8_NotRunningStep]_vars

\* A call was issued after the subprocess had exited, the engine still
\* holding its handle, and one after stop().
C8_Witness ==
    /\ Len(calls) = 2
    /\ calls[1].settles = <<RejectedNotRunning>>
    /\ calls[2].settles = <<RejectedNotRunning>>
    /\ exitWatch[1] = "done"
    /\ process = 0
    /\ stops = 0
    /\ requestId = 0
    /\ stdin = <<>>

\* C9: a stop() that directly follows a stop() throws nothing, emits nothing
\* and changes no field of the engine and no call.
C9_SecondStopStep ==
    (stops >= 1 /\ stops' > stops) =>
        /\ thrown' = ""
        /\ emitted' = <<>>
        /\ UNCHANGED <<process, isRunning, requestId, pendingRequests, buffer,
                       timers, calls, stdin, closes, reader, exitWatch, readyWait>>

C9_StopIdempotent == [][C9_SecondStopStep]_vars

\* stop() was called twice in a row, the first one rejecting a pending call.
C9_Witness ==
    /\ stops = 2
    /\ Len(calls) >= 1
    /\ calls[1].settles = <<RejectedStopped>>

\* The lines that are not blank.
NonBlank(lines) == SelectSeq(lines, LAMBDA l : Trim(l) # <<>>)

\* C10: in every reachable state, for the subprocess the engine is reading
\* (stop() not called since it was spawned, no read of an earlier
\* subprocess's output in between), the lines a read hands to the parser are
\* exactly the lines of that subprocess's output that the read completed,
\* each once and in order, blank lines left out, and the buffer holds exactly
\* the part of its output after its last newline.
C10_StreamLinesParsed ==
    live =>
        /\ parsed = NonBlank(expected)
        /\ buffer = partial

\* The events of the notifications among the lines, in order.
NotificationEvents(evs) ==
    SelectSeq(evs, LAMBDA e : e.ev \in {"message", "receipt", "typing", "sync"})

ParsedOk(lines) == SelectSeq(lines, LAMBDA l : JsonParse(l).ok)

\* The framing of a subprocess that was spawned on an empty buffer: the lines
\* handed to the parser by a read are exactly the non-blank lines of its
\* output that the read completed, in order, the buffer holds exactly its
\* output after its last newline, and the notifications among those lines are
\* emitted one event each, in the order of the lines.
FramingOnEmptyBuffer ==
    (live /\ ~stale) =>
        /\ parsed = NonBlank(expected)
        /\ buffer = partial
        /\ Len(NotificationEvents(emitted)) = Len(ParsedOk(expected))
        /\ \A i \in 1..Len(NotificationEvents(emitted)) :
              NotificationEvents(emitted)[i].envelope =
                  JsonParse(ParsedOk(expected)[i]).json.params.envelope

\* A subprocess spawned on an empty buffer: one read completed two different
\* notifications, handled in the order of their lines.
FramingOrderReached ==
    /\ live /\ ~stale
    /\ Len(parsed) = 2
    /\ Len(emitted) = 2
    /\ emitted[1].ev = "receipt"
    /\ emitted[2].ev = "message"

\* A subprocess spawned on an empty buffer: a read completed the notification
\* whose first half an earlier read had left in the buffer.
FramingResidueReached ==
    /\ live /\ ~stale
    /\ Len(expected) = 1
    /\ JsonParse(expected[1]).ok
    /\ Len(emitted) = 1
    /\ buffer = <<>>

\* The objects of the well-formed lines among `lines`, in order.
RECURSIVE LineDocs(_)
LineDocs(lines) ==
    IF lines = <<>> THEN <<>>
    ELSE LET r == JsonParse(Head(lines))
         IN IF r.ok THEN <<r.json>> \o LineDocs(Tail(lines)) ELSE LineDocs(Tail(lines))

\* The three notification shapes.
IsBare(d) == "timestamp" \in DOMAIN d /\ "number" \in DOMAIN d.timestamp
IsWrapped(d) == "envelope" \in DOMAIN d
IsReceive(d) ==
    /\ "method" \in DOMAIN d
    /\ d.method = "receive"
    /\ "params" \in DOMAIN d
    /\ "envelope" \in DOMAIN d.params

\* The envelope that an object of one of the three shapes delivers.
EnvelopeOf(d) ==
    IF IsBare(d) THEN d ELSE IF IsWrapped(d) THEN d.envelope ELSE d.params.envelope

\* The envelopes of the receive notifications among the objects, in order.
RECURSIVE ReceivedEnvelopes(_)
ReceivedEnvelopes(docs) ==
    IF docs = <<>> THEN <<>>
    ELSE LET d == Head(docs)
         IN IF "id" \notin DOMAIN d /\ IsReceive(d)
            THEN <<d.params.envelope>> \o ReceivedEnvelopes(Tail(docs))
            ELSE ReceivedEnvelopes(Tail(docs))

\* The daemon's two regular kinds of line: a JSON-RPC response and a receive
\* notification.
Regular(d) == isJsonRpcResponse(d) \/ ("id" \notin DOMAIN d /\ IsReceive(d))

\* C11: a read of the output of a subprocess spawned on an empty buffer has
\* the effect of its well-formed lines alone.  A call is settled in the step
\* only by a well-formed response line with its id; the entries removed from
\* the pending map are those of such responses; the events emitted are those
\* of the well-formed notification lines, in order (checked for responses
\* and receive notifications); and when no completed line is well-formed,
\* nothing is settled, nothing emitted and the pending map and the timers are
\* unchanged.
C11_BadLineStep ==
    (expected' # <<>> /\ live' /\ ~stale') =>
        LET docs == LineDocs(expected')
            resp == ResponsesIn(expected')
        IN /\ \A k \in DOMAIN calls :
                 NewOutcomes(k) # <<>> =>
                    \E j \in 1..Len(resp) :
                        /\ resp[j].id = calls[k].id
                        /\ NewOutcomes(k) = <<AskedOutcome(resp[j])>>
           /\ DOMAIN pendingRequests' =
                 DOMAIN pendingRequests \ {resp[j].id : j \in 1..Len(resp)}
           /\ (\A i \in 1..Len(docs) : Regular(docs[i])) =>
                 [i \in 1..Len(emitted') |-> emitted'[i].envelope] = ReceivedEnvelopes(docs)
           /\ docs = <<>> =>
                 /\ emitted' = <<>>
                 /\ UNCHANGED <<pendingRequests, timers, calls>>

C11_BadLinesDropped == [][C11_BadLineStep]_vars

\* One read held the first half of a response to the pending call 1 as a
\* line of its own, which settled nothing, and after it the whole response,
\* which resolved the call.
C11_Witness ==
    /\ Len(expected) = 2
    /\ ~JsonParse(expected[1]).ok
    /\ expected[1] = <<Piece([jsonrpc |-> "2.0", id |-> 1, result |-> "resA"], 1)>>
    /\ JsonParse(expected[2]).ok
    /\ Len(calls) >= 1
    /\ calls[1].settles = <<Resolved("resA")>>
    /\ parsed = expected

\* The object carries an id that is not null.
CarriesId(d) == "id" \in DOMAIN d /\ d.id # Null

\* The object carries the member jsonrpc with the value "2.0".
CarriesVersion(d) == "jsonrpc" \in DOMAIN d /\ d.jsonrpc = "2.0"

AcceptedShape(d) == IsBare(d) \/ IsWrapped(d) \/ IsReceive(d)

\* The step read one whole well-formed line from a subprocess spawned on an
\* empty buffer.
OneLineStep == Len(expected') = 1 /\ live' /\ ~stale' /\ JsonParse(expected'[1]).ok

\* The object of that line.
LineDoc == JsonParse(expected'[1]).json

\* In this step the object d was handled as a response: no event was
\* emitted, and the pending call with d's id, if there is one, was settled
\* and its entry removed.
AsResponse(d) ==
    /\ emitted' = <<>>
    /\ d.id \in DOMAIN pendingRequests =>
          /\ NewOutcomes(pendingRequests[d.id].call) # <<>>
          /\ d.id \notin DOMAIN pendingRequests'

\* In this step the object d was handled as a notification: no call was
\* settled and no entry or timer touched, and if d has one of the three
\* notification shapes one event was emitted.
AsNotification(d) ==
    /\ UNCHANGED <<pendingRequests, timers, calls>>
    /\ AcceptedShape(d) => Len(emitted') = 1

NotificationStep ==
    /\ OneLineStep
    /\ ~(CarriesVersion(LineDoc) /\ CarriesId(LineDoc))
    /\ AcceptedShape(LineDoc)

Has(e, kind) == kind \in DOMAIN e

\* C13: a notification line emits exactly one event, carrying the line's
\* envelope: receipt exactly when the envelope has a receipt payload; typing
\* exactly when it has a typing payload and no receipt; sync exactly when it
\* has a sync payload and neither of those; message in every other case, also
\* when the envelope has no payload at all.
C13_OneEventByPriority ==
    [][NotificationStep =>
          LET e == EnvelopeOf(LineDoc)
          IN /\ Len(emitted') = 1
             /\ emitted'[1].envelope = e
             /\ emitted'[1].ev \in {"receipt", "typing", "sync", "message"}
             /\ emitted'[1].ev = "receipt" <=> Has(e, "receiptMessage")
             /\ emitted'[1].ev = "typing" <=>
                   Has(e, "typingMessage") /\ ~Has(e, "receiptMessage")
             /\ emitted'[1].ev = "sync" <=>
                   /\ Has(e, "syncMessage")
                   /\ ~Has(e, "typingMessage")
                   /\ ~Has(e, "receiptMessage")]_vars

\* An envelope with all four payloads was read and fired receipt alone.
C13_Witness ==
    /\ Len(expected) = 1
    /\ JsonParse(expected[1]).ok
    /\ JsonParse(expected[1]).json = Receive(EnvelopeWith(PayloadKinds))
    /\ emitted = <<[ev |-> "receipt", envelope |-> EnvelopeWith(PayloadKinds)]>>

\* C14: a notification line that wraps an envelope, under envelope or under
\* params.envelope of a receive notification, emits exactly what the same
\* envelope emits when it is handled as a bare object: one event, of the
\* same kind, with the same envelope as payload.
C14_ShapesAgree ==
    [][(NotificationStep /\ IsBare(EnvelopeOf(LineDoc))) =>
          /\ Len(emitted') = 1
          /\ emitted' = handleJsonMessage(HandlerState, Bare(EnvelopeOf(LineDoc))).emitted]_vars

\* A sync envelope wrapped under envelope was read and fired sync with the
\* envelope itself as payload.
C14_Witness ==
    /\ Len(expected) = 1
    /\ JsonParse(expected[1]).ok
    /\ JsonParse(expected[1]).json = Wrapped(EnvelopeWith({"syncMessage"}))
    /\ emitted = <<[ev |-> "sync", envelope |-> EnvelopeWith({"syncMessage"})]>>

\* ------------------------------------------------------------ the store
\* The store operation this step performed.
StoreStep == Len(storeOps') = Len(storeOps) + 1
LastOp == storeOps'[Len(storeOps')]

\* The rows of conversation k, as positions in the table.
RowsOf(tbl, k) == {i \in 1..Len(tbl) : tbl[i].conversation_id = k}

UniqueIds ==
    \A k \in Keys : \A i, j \in RowsOf(table, k) : table[i].id = table[j].id => i = j

AddOverwrites ==
    (/\ StoreStep
     /\ LastOp.op = "addMessage" /\ ~LastOp.thrown
     /\ \E i \in 1..Len(table) : table[i].id = LastOp.msg.id)
    => /\ Len(table') = Len(table)
       /\ \E j \in RowsOf(table', LastOp.conversationId) :
            /\ table'[j].id = LastOp.msg.id
            /\ table'[j].content = LastOp.msg.content
            /\ table'[j].sender = LastOp.msg.sender

\* C15: after any sequence of store writes no two records of a conversation
\* have the same id, and a write of a message whose id is already stored
\* leaves the number of records as it was, the record of that id now holding
\* the written message.
C15_UniqueIds == []UniqueIds /\ [][AddOverwrites]_vars

\* A message was written over a stored one of the same id and other content.
C15_Witness ==
    /\ Len(table) = 1
    /\ \E a, b \in 1..Len(storeOps) :
        /\ a < b
        /\ storeOps[a].op = "addMessage" /\ ~storeOps[a].thrown
        /\ storeOps[b].op = "addMessage" /\ ~storeOps[b].thrown
        /\ storeOps[a].msg.id = storeOps[b].msg.id
        /\ storeOps[a].msg.content # storeOps[b].msg.content
        /\ storeOps[a].conversationId = storeOps[b].conversationId

\* The display name and the status a message carries: an empty or absent
\* name is no name, an absent status is the schema's default.
NameOf(m) == IF "senderName" \in DOMAIN m /\ m.senderName # "" THEN m.senderName ELSE SqlNull
StatusOf(m) == IF "status" \in DOMAIN m /\ m.status # "" THEN m.status ELSE "sent"

\* Content-equal messages: the same id, sender, name, content, timestamp,
\* direction and status.
ContentEqual(x, m) ==
    /\ x.id = m.id
    /\ x.sender = m.sender
    /\ NameOf(x) = NameOf(m)
    /\ x.content = m.content
    /\ x.timestamp = m.timestamp
    /\ x.isOutgoing = m.isOutgoing
    /\ StatusOf(x) = StatusOf(m)

\* The last two store operations were addMessage(m, k) and then
\* getMessages(k, limit) without a cursor, and both returned.
Added == storeOps[Len(storeOps) - 1]
Read == storeOps[Len(storeOps)]
AddThenGet ==
    /\ Len(storeOps) >= 2
    /\ Added.op = "addMessage" /\ ~Added.thrown
    /\ Read.op = "getMessages" /\ ~Read.thrown
    /\ Read.conversationId = Added.conversationId
    /\ Read.limit >= 1
    /\ ~Read.beforeTimestamp.given

LastIsAdded == Read.result # <<>> /\ ContentEqual(Read.result[Len(Read.result)], Added.msg)

\* Every other record of the conversation is older than the added message.
AddedIsNewest ==
    \A i \in RowsOf(table, Added.conversationId) :
        table[i].id # Added.msg.id => table[i].timestamp < Added.msg.timestamp

\* C16 as stated: on every prior store state, addMessage(m, k) followed by
\* getMessages(k, limit) with limit >= 1 returns a sequence whose last
\* element is content-equal to m.
C16_RoundTrip == AddThenGet => LastIsAdded

\* C16 amended: the same, on the prior store states in which every other
\* message of k has a timestamp smaller than m's.
C16_RoundTripOfNewest == (AddThenGet /\ AddedIsNewest) => LastIsAdded

\* The newest message was added to a conversation that held others, and read
\* back with a limit that lets more than one message through.
C16_Witness ==
    /\ AddThenGet /\ AddedIsNewest
    /\ Len(Read.result) >= 2
    /\ LastIsAdded

\* The last store operation was an addMessage that returned.
Done == storeOps[Len(storeOps)]
JustAdded == Len(storeOps) >= 1 /\ Done.op = "addMessage" /\ ~Done.thrown

OneNewMessage ==
    /\ Len(Done.emitted) = 1
    /\ Done.emitted[1].event = "new-message"
    /\ Done.emitted[1].msg = Done.msg
    /\ Done.emitted[1].conversationId = Done.conversationId

ListenerSeesAdded == \E i \in 1..Len(Done.saw) : ContentEqual(Done.saw[i], Done.msg)

\* The other records of the conversation that are not older than the added
\* message.
NotOlder ==
    {i \in RowsOf(table, Done.conversationId) :
        table[i].id # Done.msg.id /\ table[i].timestamp >= Done.msg.timestamp}

\* C17 as stated: each addMessage(m, k) emits exactly one new-message
\* carrying m and k, and a listener that reads getMessages(k) while handling
\* it sees m.
C17_EmitAfterWrite == JustAdded => (OneNewMessage /\ ListenerSeesAdded)

\* C17 amended: each addMessage(m, k) emits exactly one new-message carrying
\* m and k, and a listener that reads getMessages(k) while handling it sees
\* m whenever fewer than 50 other messages of k are not older than m.
C17_EmitAfterWriteWithinLimit ==
    JustAdded => /\ OneNewMessage
                 /\ Cardinality(NotOlder) < DefaultLimit => ListenerSeesAdded

\* A message was added to a conversation that held another, and the
\* listener read both.
C17_Witness ==
    /\ JustAdded
    /\ OneNewMessage
    /\ Cardinality(NotOlder) < DefaultLimit
    /\ Len(Done.saw) >= 2
    /\ ListenerSeesAdded

\* The last three store operations were addMessage(optimistic, k),
\* replaceMessage(optimistic.id, real, k) with real under another id, and
\* getMessages(k), and all returned.
Optimistic == storeOps[Len(storeOps) - 2]
Replacement == storeOps[Len(storeOps) - 1]
AddReplaceGet ==
    /\ Len(storeOps) >= 3
    /\ Optimistic.op = "addMessage" /\ ~Optimistic.thrown
    /\ Replacement.op = "replaceMessage" /\ ~Replacement.thrown
    /\ Replacement.oldId = Optimistic.msg.id
    /\ Replacement.msg.id # Optimistic.msg.id
    /\ Replacement.conversationId = Optimistic.conversationId
    /\ Read.op = "getMessages" /\ ~Read.thrown
    /\ Read.conversationId = Optimistic.conversationId
    /\ Read.limit = DefaultLimit
    /\ ~Read.beforeTimestamp.given

RealNotOptimistic ==
    /\ \E i \in 1..Len(Read.result) : ContentEqual(Read.result[i], Replacement.msg)
    /\ \A i \in 1..Len(Read.result) : Read.result[i].id # Optimistic.msg.id

\* The other records of the conversation that are not older than real.
NotOlderThanReal ==
    {i \in RowsOf(table, Replacement.conversationId) :
        table[i].id # Replacement.msg.id /\ table[i].timestamp >= Replacement.msg.timestamp}

\* C18 as stated: after addMessage(optimistic, k) and
\* replaceMessage(optimistic.id, real, k), getMessages(k) contains real and
\* no record whose id is optimistic.id.
C18_Replaced == AddReplaceGet => RealNotOptimistic

\* C18 amended: the same, when fewer than 50 other messages of k are not
\* older than real.
C18_ReplacedWithinLimit ==
    (AddReplaceGet /\ Cardinality(NotOlderThanReal) < DefaultLimit) => RealNotOptimistic

\* An optimistic message was replaced in a conversation that holds another
\* message, and both were read.
C18_Witness ==
    /\ AddReplaceGet
    /\ Cardinality(NotOlderThanReal) < DefaultLimit
    /\ Len(Read.result) >= 2
    /\ RealNotOptimistic

\* ------------------------------------------------------ the user's send
\* The records of the sent message in its conversation: the outgoing rows
\* with its text under the temporary id or under the decimal string of the
\* daemon-assigned timestamp.
TemporaryId == sending.optimisticMessage.id
AssignedId == toString(sending.assigned)
RecordsOfSend(ids) ==
    {i \in RowsOf(table, sending.conversationId) :
        /\ table[i].id \in ids
        /\ table[i].is_outgoing = 1
        /\ table[i].content = sending.optimisticMessage.content}

\* C19: when the send call of a message stored optimistically resolves, the
\* conversation holds exactly one record of the message, under the decimal
\* string of the daemon-assigned timestamp, none under the temporary id, and
\* its status is not failed.
C19_AcceptedSendPromoted ==
    (sending.stage = "resolved" /\ sending.storage)
    => /\ Cardinality(RecordsOfSend({AssignedId})) = 1
       /\ TemporaryId # AssignedId => RecordsOfSend({TemporaryId}) = {}
       /\ \A i \in RecordsOfSend({AssignedId}) : table[i].status # "failed"

\* C20: once the response of the send call and the synced echo of the send
\* have both been processed, in either order, the conversation holds exactly
\* one record of the message.
C20_OneRecordAfterBoth ==
    (sending.stage = "resolved" /\ sending.echoed /\ sending.storage)
    => Cardinality(RecordsOfSend({TemporaryId, AssignedId})) = 1

\* The send call of an optimistically stored message rejects in this step.
SendFails == sending.stage = "awaiting" /\ sending'.stage = "rejected" /\ sending.storage

\* The status of the row with this id, "" when there is none.
StatusAt(tbl, id) ==
    IF \E i \in 1..Len(tbl) : tbl[i].id = id
    THEN tbl[CHOOSE i \in 1..Len(tbl) : tbl[i].id = id].status
    ELSE ""

C21_FailedSendStep ==
    SendFails =>
        /\ RecordsOfSend({TemporaryId})' # {}
        /\ \A i \in RecordsOfSend({TemporaryId})' : table'[i].status = "failed"
        /\ \A i \in 1..Len(table) :
              table[i].id # TemporaryId => StatusAt(table', table[i].id) = table[i].status
        /\ ~lastCall'.raised

\* C21: when the send call of an optimistically stored message fails, the
\* message is in the store with status failed, the status of every other
\* message is what it was, and the send handler raises nothing.
C21_FailedSendMarked == [][C21_FailedSendStep]_vars

\* ------------------------------------------------------- status updates
\* This step was an updateMessageStatus(ts, s) that returned.
StatusStep == StoreStep /\ LastOp.op = "updateMessageStatus" /\ ~LastOp.thrown

OutgoingAt(tbl, ts) == {i \in 1..Len(tbl) : tbl[i].timestamp = ts /\ tbl[i].is_outgoing = 1}

C22_StatusStep ==
    StatusStep =>
        /\ Len(table') = Len(table)
        /\ \A i \in OutgoingAt(table, LastOp.timestamp) : table'[i].status = LastOp.status
        /\ \A i \in 1..Len(table) :
              /\ (table[i].timestamp = LastOp.timestamp /\ table[i].is_outgoing = 0)
                    => table'[i].status = table[i].status
              /\ table[i].timestamp # LastOp.timestamp => table'[i] = table[i]
              /\ [table'[i] EXCEPT !.status = table[i].status] = table[i]
        /\ OutgoingAt(table, LastOp.timestamp) = {} => table' = table

\* C22: updateMessageStatus(ts, s) sets the status of the outgoing messages
\* with timestamp ts to s; an incoming message with timestamp ts keeps its
\* status, a message with another timestamp is untouched, every field but
\* the status is preserved, and the table is unchanged when no outgoing
\* message has timestamp ts.
C22_StatusOnlyOutgoing == [][C22_StatusStep]_vars

\* The status of an outgoing message was set while an incoming message of
\* the same timestamp kept another status.
C22_Witness ==
    /\ Len(storeOps) >= 1
    /\ Done.op = "updateMessageStatus" /\ ~Done.thrown
    /\ \E i \in OutgoingAt(table, Done.timestamp) : table[i].status = Done.status
    /\ \E i \in 1..Len(table) :
          /\ table[i].timestamp = Done.timestamp
          /\ table[i].is_outgoing = 0
          /\ table[i].status # Done.status

\* C23: every updateMessageStatus(ts, s) call that returns has emitted one
\* status-updated(ts, s) notification to the store's subscribers.
C23_StatusUpdatedEmitted ==
    \A n \in 1..Len(storeOps) :
        (storeOps[n].op = "updateMessageStatus" /\ ~storeOps[n].thrown) =>
            /\ Len(storeOps[n].emitted) = 1
            /\ storeOps[n].emitted[1].event = "status-updated"
            /\ storeOps[n].emitted[1].timestamp = storeOps[n].timestamp
            /\ storeOps[n].emitted[1].status = storeOps[n].status

\* ---------------------------------------------------------------- reading
\* This step was a getMessages(k, limit, before) that returned.
ReadStep == StoreStep /\ LastOp.op = "getMessages" /\ ~LastOp.thrown

\* The rows of k that a read with this cursor may return: all of them when
\* no cursor is supplied, those strictly before a supplied cursor.
Qualifying(tbl, k, before) ==
    {i \in RowsOf(tbl, k) : before.given => tbl[i].timestamp < before.value}

\* The rows of the table the result r shows.
Shown(tbl, r) == {i \in 1..Len(tbl) : \E j \in 1..Len(r) : r[j] = ToMessage(tbl[i])}

GetMessagesContract ==
    LET r == LastOp.result
        k == LastOp.conversationId
        q == Qualifying(table, k, LastOp.beforeTimestamp)
        shown == Shown(table, r)
    IN /\ Len(r) <= LastOp.limit
       /\ \A j \in 1..Len(r) : \E i \in RowsOf(table, k) : r[j] = ToMessage(table[i])
       /\ \A j \in 1..Len(r), l \in 1..Len(r) : j < l => r[j].timestamp <= r[l].timestamp
       /\ \A j \in 1..Len(r), l \in 1..Len(r) : j # l => r[j].id # r[l].id
       /\ shown \subseteq q
       /\ Cardinality(shown) = IF Cardinality(q) < LastOp.limit
                               THEN Cardinality(q) ELSE LastOp.limit
       /\ \A i \in q \ shown : \A j \in 1..Len(r) : table[i].timestamp <= r[j].timestamp
       /\ LastOp.beforeTimestamp.given =>
              \A j \in 1..Len(r) : r[j].timestamp < LastOp.beforeTimestamp.value

\* C24: getMessages(k, limit, before) returns only messages stored under k,
\* at most limit of them, in ascending timestamp order, the most recent
\* ones that qualify, and with a cursor supplied every one of them has a
\* timestamp strictly less than the cursor.
C24_GetMessages == [][ReadStep => GetMessagesContract]_vars

\* ------------------------------------------------------ recency metadata
\* This step was a getAllConversationMetadata() that returned.
MetadataStep ==
    StoreStep /\ LastOp.op = "getAllConversationMetadata" /\ ~LastOp.thrown

MaxTimestamp(tbl, k) ==
    CHOOSE t \in {tbl[i].timestamp : i \in RowsOf(tbl, k)} :
        \A i \in RowsOf(tbl, k) : tbl[i].timestamp <= t

MetadataContract ==
    LET r == LastOp.result
    IN /\ DOMAIN r = {k \in Keys : RowsOf(table, k) # {}}
       /\ \A k \in DOMAIN r :
             /\ r[k].timestamp = MaxTimestamp(table, k)
             /\ \E i \in RowsOf(table, k) :
                   /\ table[i].timestamp = MaxTimestamp(table, k)
                   /\ table[i].content = r[k].content

\* C25: getAllConversationMetadata() returns one entry per conversation key
\* that has at least one stored message, each with the timestamp and the
\* content of a message of the maximum timestamp of that conversation, in
\* whatever order the messages were added.
C25_Metadata == [][MetadataStep => MetadataContract]_vars

\* The aggregate was read of a conversation whose newest message was added
\* before an older one.
C25_Witness ==
    /\ Len(storeOps) >= 1
    /\ Done.op = "getAllConversationMetadata" /\ ~Done.thrown
    /\ \E k \in DOMAIN Done.result :
          \E i \in RowsOf(table, k), j \in RowsOf(table, k) :
              /\ i < j
              /\ table[i].timestamp > table[j].timestamp
              /\ Done.result[k].timestamp = table[i].timestamp

\* ------------------------------------------------------ conversation keys
\* The digits of a string, in their order.
RECURSIVE DigitsOf(_)
DigitsOf(str) ==
    IF str = <<>> THEN <<>>
    ELSE IF Head(str) \in DigitChars THEN <<Head(str)>> \o DigitsOf(Tail(str))
    ELSE DigitsOf(Tail(str))

\* The first character that is not white space is a +.
PlusFirst(str) ==
    \E i \in 1..Len(str) : str[i] = "+" /\ \A j \in 1..(i - 1) : str[j] \in WhiteSpace

Normalized == lastCall.handler = "normalizeNumber"

\* C26: normalizeNumber never raises; it returns the empty string for
\* null, undefined and the empty string, and for every other string its
\* digits in their order, with one + in front exactly when the trimmed
\* string starts with +; the same argument gives the same result.
C26_NormalizeNumber ==
    Normalized =>
        /\ ~lastCall.raised
        /\ ~lastCall.phone.given => lastCall.result = <<>>
        /\ lastCall.phone.given =>
              lastCall.result =
                  (IF PlusFirst(lastCall.phone.value) THEN <<"+">> ELSE <<>>)
                      \o DigitsOf(lastCall.phone.value)
        /\ \A n \in 1..Len(lastCall.before) : lastCall.before[n] = lastCall.result

\* A string with white space before its + was normalised, a second time.
C26_Witness ==
    /\ Normalized
    /\ lastCall.phone.given
    /\ Len(lastCall.phone.value) = MaxPhoneLen
    /\ lastCall.phone.value[1] \in WhiteSpace
    /\ lastCall.result = <<"+", "1">>
    /\ lastCall.before # <<>>

\* The last handler run was handleEnvelope, on an envelope with a text.
Translated ==
    /\ lastCall.handler = "handleEnvelope"
    /\ "envelope" \in DOMAIN lastCall
    /\ lastCall.translated.hasMessage

IsIncoming(e) == "dataMessage" \in DOMAIN e
Body(e) == IF IsIncoming(e) THEN e.dataMessage ELSE e.syncMessage.sentMessage
InGroup(e) == "groupInfo" \in DOMAIN Body(e)

\* The counterparty's handles: the sender's of an incoming message, the
\* destination's of a synced one.
NumberOf(e) ==
    IF IsIncoming(e) THEN Handle(e, "sourceNumber")
    ELSE Handle(e.syncMessage.sentMessage, "destinationNumber")
UuidOf(e) ==
    IF IsIncoming(e) THEN Handle(e, "sourceUuid")
    ELSE Handle(e.syncMessage.sentMessage, "destinationUuid")

\* C27: a direct message whose counterparty has a unique id and no number
\* is stored under the unique id, unmodified; with neither handle the key
\* is empty and nothing is written.
C27_UuidKeyVerbatim ==
    (Translated /\ ~InGroup(lastCall.envelope) /\ ~Truthy(NumberOf(lastCall.envelope))) =>
        IF Truthy(UuidOf(lastCall.envelope))
        THEN /\ lastCall.translated.conversationId = UuidOf(lastCall.envelope).value
             /\ lastCall.saved
        ELSE /\ lastCall.translated.conversationId = <<>>
             /\ ~lastCall.saved

\* The envelopes about contact c: a message from c, and the echo of a
\* message sent to c.
About(c) == {IncomingFrom(c, t) : t \in 1..MaxTime} \cup {SyncedTo(c, t) : t \in 1..MaxTime}

\* C28: a direct message from a contact and the synced echo of a message
\* to that contact are stored under the conversation id the contact list
\* gives the contact, which is the key an optimistic send to the contact
\* is stored under.
C28_OneThread ==
    \A c \in Contacts :
        (Translated /\ lastCall.envelope \in About(c)) =>
            lastCall.translated.conversationId = ContactId(c)

TranslateContract ==
    LET e == lastCall.envelope
        t == lastCall.translated
    IN /\ IF InGroup(e)
          THEN t.conversationId = Body(e).groupInfo.groupId
          ELSE t.conversationId =
                   IF Truthy(NumberOf(e)) THEN normalizeNumber(NumberOf(e))
                   ELSE normalizeNumber(UuidOf(e))
       /\ t.newMessage.isOutgoing = ~IsIncoming(e)
       /\ ~IsIncoming(e) => t.newMessage.sender = "Me"
       /\ t.newMessage.content = Body(e).message
       /\ (lastCall.saved /\ ~lastCall.raised) =>
              \E i \in 1..Len(table) : table[i] = Row(t.newMessage, t.conversationId)

\* C29: the conversation key of a translated envelope is the group
\* identifier, unmodified, when the data message or the synced sent message
\* carries group info; otherwise it is derived from the sender's handle for
\* an incoming message and from the destination's handle for a synced one,
\* which is stored with sender "Me" and outgoing = true.
C29_Translation == Translated => TranslateContract

\* A synced message to a group was stored under the group identifier, from
\* an envelope that carries the destination's number and unique id too.
C29_Witness ==
    /\ Translated
    /\ ~IsIncoming(lastCall.envelope)
    /\ InGroup(lastCall.envelope)
    /\ Truthy(NumberOf(lastCall.envelope)) /\ Truthy(UuidOf(lastCall.envelope))
    /\ \E i \in 1..Len(table) :
          /\ table[i].conversation_id = <<"g", "1">>
          /\ table[i].sender = "Me"
          /\ table[i].is_outgoing = 1
          /\ table[i].id = toString(lastCall.envelope.timestamp.number)

\* ---------------------------------------------------------------- receipts
\* This step was the receipt listener, on an envelope with a receipt
\* message, and no call of it threw.
ReceiptStep ==
    /\ lastCall'.handler = "receipt"
    /\ storeOps' = storeOps
    /\ "receiptMessage" \in DOMAIN lastCall'.envelope
    /\ ~lastCall'.raised

Listed(timestamps) == {timestamps[i] : i \in 1..Len(timestamps)}

ReceiptContract ==
    LET r == lastCall'.envelope.receiptMessage
        status == IF r.type = "READ" \/ r.type = "VIEWED" THEN "read" ELSE "delivered"
    IN /\ Len(lastCall'.calls) = Len(r.timestamps)
       /\ \A i \in 1..Len(r.timestamps) :
             lastCall'.calls[i] = [timestamp |-> r.timestamps[i], status |-> status]
       /\ Len(table') = Len(table)
       /\ \A i \in 1..Len(table) :
             IF table[i].timestamp \in Listed(r.timestamps) /\ table[i].is_outgoing = 1
             THEN table'[i] = [table[i] EXCEPT !.status = status]
             ELSE table'[i] = table[i]

\* C30: on a receipt event updateMessageStatus is called once for every
\* entry of the receipt's list of timestamps, with status read when the
\* type is READ or VIEWED and delivered otherwise; messages with timestamps
\* that are not in the list are not updated.
C30_Receipt == [][ReceiptStep => ReceiptContract]_vars

\* A VIEWED receipt for one of two stored outgoing messages was handled:
\* the listed one is read, the other is not.
C30_Witness ==
    /\ lastCall.handler = "receipt"
    /\ "receiptMessage" \in DOMAIN lastCall.envelope
    /\ lastCall.envelope.receiptMessage.type = "VIEWED"
    /\ lastCall.envelope.receiptMessage.timestamps = <<1>>
    /\ ~lastCall.raised
    /\ \E i \in 1..Len(table), j \in 1..Len(table) :
          /\ table[i].timestamp = 1 /\ table[i].is_outgoing = 1 /\ table[i].status = "read"
          /\ table[j].timestamp = 2 /\ table[j].is_outgoing = 1 /\ table[j].status = "sent"

\* --------------------------------------------------------- the App views
\* This step is initialize() resuming with the account list, after a
\* start() that resolved.
AccountsListed ==
    /\ app.by = "initialize"
    /\ app.pc = "listAccounts"
    /\ app'.pc # "listAccounts"
    /\ ~app'.failed

LastAsked(a) == a.asked[Len(a.asked)]

C31_StartStep ==
    AccountsListed =>
        IF app'.accounts # <<>>
        THEN app'.currentView = "chat"
        ELSE /\ app'.currentView = "onboarding"
             /\ app'.pc = "startLink"
             /\ LastAsked(app').method = "startLink"

\* C31: after a successful start the view becomes chat when the account
\* list returned is not empty, and onboarding with startLink called at
\* once, with no input of the user, when it is empty.
C31_ViewAfterStart == [][C31_StartStep]_vars

\* Started with no account: onboarding, the link URI asked for.
C31_Witness ==
    /\ app.by = "initialize"
    /\ app.currentView = "onboarding"
    /\ app.accounts = <<>>
    /\ app.pc = "startLink"
    /\ ~app.failed

\* The calls of a linking flow, in order, with the URI that was returned.
LinkCalls(uri) ==
    <<[method |-> "startLink", param |-> ""],
      [method |-> "finishLink", param |-> uri],
      [method |-> "listAccounts", param |-> ""]>>

C32_LinkStep ==
    /\ (app'.linkStatus = "waiting" /\ app.linkStatus # "waiting") =>
          /\ app.pc = "startLink"
          /\ app.asked = SubSeq(LinkCalls(""), 1, 1)
          /\ app'.linkUri # ""
    /\ (app'.asked # app.asked /\ LastAsked(app').method = "finishLink") =>
          /\ app'.asked = SubSeq(LinkCalls(app'.linkUri), 1, 2)
          /\ app'.linkStatus = "waiting"
    /\ (app'.linkStatus = "success" /\ app.linkStatus # "success") =>
          /\ app.pc = "finishLink"
          /\ app.asked = SubSeq(LinkCalls(app.linkUri), 1, 2)
          /\ app'.asked = LinkCalls(app.linkUri)
    /\ (app'.currentView = "chat" /\ app.currentView = "onboarding") =>
          /\ app.asked = LinkCalls(app.linkUri)
          /\ app.pc = "idle"
          /\ ~app.failed

\* C32: in every linking flow startLink is called, the status becomes
\* waiting only when the URI has been returned, finishLink is called with
\* that URI, the status becomes success only when finishLink has resolved,
\* the account list is fetched again, and only then the view becomes chat;
\* and a flow in which no step fails leads to the chat view.
C32_LinkingOrder ==
    /\ [][C32_LinkStep]_vars
    /\ (app.pc = "startLink") ~> (app.currentView = "chat" \/ app.failed)

\* A linking flow requested from chat has run through: the view is chat
\* again, after the three calls.
C32_Witness ==
    /\ app.currentView = "chat"
    /\ app.linkStatus = "success"
    /\ app.asked = LinkCalls(app.linkUri)
    /\ app.linkUri # ""
    /\ app.pc = "idle"
    /\ ~app.failed

\* This step is a catch block running: an awaited start, account listing,
\* startLink or finishLink rejected.
Caught ==
    /\ app.pc \in {"start", "listAccounts", "startLink", "finishLink", "refetch"}
    /\ app'.pc = "idle"
    /\ ~app.failed /\ app'.failed

\* What Layout hands to Onboarding as its status (Layout.tsx:45-56).
ShownStatus(a) == IF a.currentView = "loading" THEN "loading" ELSE a.linkStatus

\* C33: when start, the account listing, startLink or finishLink fails and
\* no intentional stop is in progress, the application is in the
\* onboarding view with linking status error and the reason shown.
C33_FailureShown ==
    [][(Caught /\ ~app.isStopping) =>
          /\ app'.currentView = "onboarding"
          /\ app'.linkStatus = "error"
          /\ ShownStatus(app') = "error"
          /\ app'.errorMessage # ""]_vars

\* C34: once the stopping flag is set, no rejection of a call in flight,
\* no error event and no close event turns the linking status to error or
\* sets an error message.
C34_QuietStop ==
    [][app.isStopping =>
          /\ app'.isStopping
          /\ app'.linkStatus = "error" => app.linkStatus = "error"
          /\ app'.errorMessage = app.errorMessage]_vars

\* A call in flight was rejected after the stop began, and no error is
\* shown.
C34_Witness ==
    /\ app.isStopping
    /\ app.failed
    /\ app.pc = "idle"
    /\ app.linkStatus # "error"
    /\ app.errorMessage = ""

\* -------------------------------------------------------- sortByRecency
Sorted == lastCall.handler = "sortByRecency"

\* The last-message time of a conversation, 0 when it has none.
TimeOf(c) == IF "lastMessageTime" \in DOMAIN c THEN c.lastMessageTime ELSE 0

Occurrences(s, c) == Cardinality({i \in 1..Len(s) : s[i] = c})

\* C35: sortByRecency returns a permutation of its input in which the
\* conversations with a last-message time above zero come before those
\* with none, the former in descending order of time and the latter in
\* ascending order of display name.
C35_SortByRecency ==
    Sorted =>
        LET r == lastCall.result
        IN /\ Len(r) = Len(lastCall.convs)
           /\ \A c \in Conversations : Occurrences(r, c) = Occurrences(lastCall.convs, c)
           /\ \A i \in 1..Len(r), j \in 1..Len(r) :
                 i < j =>
                     /\ TimeOf(r[j]) > 0 => TimeOf(r[i]) >= TimeOf(r[j])
                     /\ (TimeOf(r[i]) = 0 /\ TimeOf(r[j]) = 0) =>
                           localeCompare(r[i].displayName, r[j].displayName) <= 0

\* A list was sorted that began with a conversation without messages and
\* held an older message before a newer one.
C35_Witness ==
    /\ Sorted
    /\ Len(lastCall.convs) = MaxConvs
    /\ lastCall.result # lastCall.convs
    /\ TimeOf(lastCall.convs[1]) = 0
    /\ TimeOf(lastCall.convs[2]) > 0
    /\ TimeOf(lastCall.convs[3]) > TimeOf(lastCall.convs[2])

\* C36: whenever the view is chat the known account list holds at least
\* one account, also after a linking flow whose re-fetched list is empty.
C36_ChatHasAccount == app.currentView = "chat" => app.accounts # <<>>

\* ------------------------------------------------------ delivery status
\* sent < delivered < read
StatusRank(status) == CASE status = "sent" -> 1 [] status = "delivered" -> 2
                        [] status = "read" -> 3 [] OTHER -> 0

\* C37: the status of a stored outgoing message never moves backwards in
\* sent < delivered < read, under receipts and repeated writes.
C37_StatusMonotonic ==
    [][\A i \in 1..Len(table), j \in 1..Len(table') :
          (/\ table'[j].id = table[i].id
           /\ table'[j].conversation_id = table[i].conversation_id
           /\ table[i].is_outgoing = 1 /\ table'[j].is_outgoing = 1
           /\ StatusRank(table[i].status) > 0 /\ StatusRank(table'[j].status) > 0)
              => StatusRank(table'[j].status) >= StatusRank(table[i].status)]_vars

\* ------------------------------------------------------------- sessions
\* This step is the exit of an earlier subprocess p being handled while a
\* later subprocess is the client's process.
EarlierExits(p) ==
    /\ exitWatch[p] = "waiting"
    /\ exitWatch'[p] = "done"
    /\ process # 0
    /\ p < process

\* C38: after stop() and a new start(), the exit of the earlier subprocess
\* rejects no call pending on the new one, does not mark the engine as not
\* running and emits no close event for the new subprocess.
C38_EarlierExitHarmless ==
    [][\A p \in Procs :
          EarlierExits(p) =>
              /\ isRunning' = isRunning
              /\ pendingRequests' = pendingRequests
              /\ calls' = calls
              /\ closes'[process] = closes[process]]_vars

\* C40: ready is emitted only while the engine runs: for a given start(),
\* never after stop() has been called and never after the close event of
\* that subprocess has been emitted.
C40_ReadyWhileRunning ==
    [][\A p \in Procs :
          (readyWait[p] /\ ~readyWait'[p]) =>
              /\ process = p
              /\ isRunning
              /\ closes[p] = 0]_vars

\* C39: addMessage(m, k) changes only conversation k: for every other
\* conversation key, what getMessages returns is the same before and after
\* the call, whatever the id of m.
C39_AddTouchesOneConversation ==
    [][(StoreStep /\ LastOp.op = "addMessage" /\ ~LastOp.thrown) =>
          \A other \in Keys \ {LastOp.conversationId} :
              GetMessages(table', other, DefaultLimit, NoCursor)
                  = GetMessages(table, other, DefaultLimit, NoCursor)]_vars

====
